---- MODULE Spec2Model ----
(***************************************************************************)
(* Kitchen Sync, destination ("to") end: the worker threads of sync_to     *)
(* (src/src/sync_to.h), the ks launcher (src/unnamed/part_000) and the     *)
(* per-table dialogue with the source end, and the source ("from") end's  *)
(* answers to HASH and ROWS as its tests (src/unnamed/part_001,            *)
(* src/test/rows_from_test.rb) fix them.                                   *)
(*                                                                         *)
(* Six specifications share this module:                                   *)
(*   Spec      the worker threads of one sync_to run and their SyncQueue;  *)
(*             a table dialogue is a sequence of verbs, without rows       *)
(*   LiveSpec  Spec with weak fairness of every worker thread              *)
(*   TableSpec one worker from its OPEN of a table to the end of its       *)
(*             thread, with the rows of the table at both ends             *)
(*   TableLiveSpec  TableSpec with weak fairness of the steps without error *)
(*   KsSpec    the ks launcher process and its exit status                 *)
(*   FromSpec  the source end answering HASH and ROWS commands on a table  *)
(* sync_queue.h, sync_algorithm.h and table_row_applier.h are not among    *)
(* the sources: SyncQueue's operations, the range-selection policy, the    *)
(* row applier and the source end follow spec.md sections 4.2 to 4.5.      *)
(***************************************************************************)
EXTENDS Integers, Sequences, FiniteSets, TLC

\* ------------------------------------------------------------------ bounds
MaxWorkers == 2     \* num_workers ranges over 1..MaxWorkers
MaxTables  == 1     \* database.tables holds 0..MaxTables tables
MaxKsWorkers == 3   \* --workers of the ks launcher ranges over 1..MaxKsWorkers
MaxKey == 3         \* the keys of a table's rows range over 1..MaxKey
MaxVal == 2         \* the column values of the source end's table: 1..MaxVal
MaxRows == 3        \* the source end's table holds 0..MaxRows database rows
MaxBuffer == 2      \* a stream buffer holds up to MaxBuffer commands or rows
MaxStreamed == 2    \* a combined command carries 0..MaxStreamed rows

W == 0 .. (MaxWorkers - 1)
Tokens == {"snap-a", "snap-b"}          \* opaque snapshot tokens of the peer

\* verbs received inside the per-table loop; "OTHER" is any other verb
TableVerbs == {"HASH_NEXT", "HASH_FAIL", "ROWS",
               "ROWS_AND_HASH_NEXT", "ROWS_AND_HASH_FAIL", "OTHER"}

VARIABLES
    \* ---- options and sync_to's main thread
    num_workers,     \* sync_to's num_workers
    snapshot,        \* option: share a snapshot
    partial,         \* option: commit on error
    rollback_after,  \* option: roll back instead of committing
    tables,          \* number of tables the leader's schema holds
    created,         \* workers constructed so far (their threads run)
    result,          \* "running" | "ok" | "sync_error": how sync_to ended
    \* ---- SyncQueue
    aborted,         \* sync_queue.aborted
    sq_snapshot,     \* sync_queue.snapshot
    queue,           \* sync_queue's pending tables
    waiting,         \* workers waiting at the barrier
    generation,      \* barrier generation
    \* ---- per worker
    pc,              \* position of the worker thread
    in_barrier,      \* the worker waits inside wait_at_barrier
    my_generation,   \* generation captured on entering the barrier (a local: 0 outside)
    txn,             \* client transaction: none | open | committed | rolled_back | commit_failed
    ref_integrity,   \* client referential integrity is enabled
    commit_attempts, \* per worker: calls of client.commit_transaction()
    table,           \* table being synced, 0 when none
    sent,            \* commands the worker has sent, in order: <<verb, table>>, the
                     \* table 0 but for OPEN (range commands are not kept)
    closed,          \* times output_stream.close() ran
    \* ---- history
    caught,          \* "no" | "error" | "aborted": what the catch block caught
    printed,         \* error messages written to cerr
    quit_tried,      \* send_quit_command ran
    reads_after,     \* commands read in the table loop after another worker's abort
    sends_after,     \* commands sent in the table loop after another worker's abort
    snap_writers,    \* sequence of workers that wrote sync_queue.snapshot
    export_token,    \* token the leader received for EXPORT_SNAPSHOT
    import_token,    \* token each worker sent with IMPORT_SNAPSHOT
    enqueue_calls,   \* sequence of workers that called sync_queue.enqueue
    schema_checked,  \* check_schema_match returned
    barrier_calls,   \* per worker: calls of wait_at_barrier made
    barrier_returns, \* per worker: calls of wait_at_barrier that returned
    pops,            \* a pop() call of the worker has returned
    tables_done,     \* pop() returned no table to the worker
    early_abort,     \* abort was set while some worker had not finished its tables
    \* ---- the ks launcher
    ks_pc,           \* position of ks's main, "off" when a sync_to run is modelled
    ks_workers,      \* --workers
    ks_children,     \* child processes launched (child_pids.size())
    ks_results,      \* what wait_for_and_check returned for each child waited for
    ks_success,      \* main's variable success
    ks_threw,        \* main's outer catch block ran
    ks_exit,         \* exit status of ks, -1 while it runs
    \* ---- the table dialogue of TableSpec (worker 0 and its source peer)
    src_rows,        \* the table at the source end: key -> row, NoRow where none
    dst_rows,        \* the table at the destination end, inside the transaction
    dst_rows0,       \* the destination table when the run began
    block_rows,      \* rows that fit target_block_size
    input,           \* commands in flight from the source, oldest first
    output,          \* commands in flight to the source, oldest first
    command,         \* sync_table's local: the command read, NoCommand outside
    hash_commands,   \* sync_table's local: commands with a hash received
    rows_commands,   \* sync_table's local: commands with rows received
    cursor,          \* prev_key of the last range command sent for the table
    \* ---- the source end of FromSpec
    from_table,      \* the table: key columns, uniqueness of the key, rows
    from_pc,         \* "idle", "sent" (a request waits), "replied"; "off"
    request,         \* the command last sent to the source end
    reply,           \* the source end's reply to it
    previous,        \* the reply read to the same request before, if any
    \* --- a worker and its peer on streams with bounded buffers (PipeSpec)
    send_buffer_size, \* commands the buffer of the worker's output holds
    recv_buffer_size, \* headers / rows the buffer of the peer's output holds
    send_buffer,     \* commands written by the worker, not yet read by the peer
    recv_buffer,     \* written by the peer, not yet read by the worker
    to_pc,           \* the worker: read_command | send_command | stream_from_input
    peer_pc,         \* the peer: read_command | write_command | write_rows
    rows_left        \* rows of the current command the peer has not written yet

optVars   == <<num_workers, snapshot, partial, rollback_after, tables>>
mainVars  == <<created, result>>
queueVars == <<aborted, sq_snapshot, queue, waiting, generation>>
barVars   == <<in_barrier, my_generation>>
dbVars    == <<txn, ref_integrity, commit_attempts>>
dataVars  == <<src_rows, dst_rows, dst_rows0, block_rows, input, output>>
syncVars  == <<command, hash_commands, rows_commands, cursor>>
tblVars   == <<dataVars, syncVars>>
hAbort    == <<caught, printed, early_abort>>
hLoop     == <<reads_after, sends_after, pops, tables_done>>
hSnap     == <<snap_writers, export_token, import_token>>
hLead     == <<enqueue_calls, schema_checked>>
hBar      == <<barrier_calls, barrier_returns>>
histVars  == <<hAbort, hLoop, hSnap, hLead, hBar, quit_tried>>
ksVars    == <<ks_pc, ks_workers, ks_children, ks_results, ks_success, ks_threw,
               ks_exit>>
toVars    == <<optVars, mainVars, queueVars, pc, barVars, dbVars, table, sent,
               closed, histVars>>
fromVars  == <<from_table, from_pc, request, reply, previous>>
pipeVars  == <<send_buffer_size, recv_buffer_size, send_buffer, recv_buffer,
               to_pc, peer_pc, rows_left>>
vars      == <<toVars, ksVars, tblVars, fromVars, pipeVars>>

Workers == 0 .. (num_workers - 1)
leader(w) == w = 0

\* ------------------------------------------------------------ small steps
Goto(w, to) == pc' = [pc EXCEPT ![w] = to]
Send(w, verb) ==
    sent' = [sent EXCEPT ![w] = Append(@, <<verb, IF verb = "OPEN" THEN table[w] ELSE 0>>)]
\* the verbs a worker has sent, and how often it has sent one
sent_verbs(w) == {sent[w][i][1] : i \in DOMAIN sent[w]}
times_sent(w, verb) == Cardinality({i \in DOMAIN sent[w] : sent[w][i][1] = verb})
\* an exception leaves the try block of operator() for its catch block
Throw(w, kind) ==
    /\ pc' = [pc EXCEPT ![w] = "catch"]
    /\ caught' = [caught EXCEPT ![w] = kind]
    /\ UNCHANGED <<printed, early_abort>>

\* the empty tuple [] of a key, and the absence of a command
NoKey == 0
NoCommand == [verb |-> "none", prev_key |-> NoKey, last_key |-> NoKey,
              next_key |-> NoKey, failed_last_key |-> NoKey, hash |-> {}, rows |-> {}]

\* sync_table's locals outside the call
NoTable ==
    /\ command = NoCommand /\ hash_commands = 0 /\ rows_commands = 0
    /\ cursor = NoKey

\* unwinding out of sync_table destroys its locals (command, the counters,
\* the row applier)
Unwind(w) ==
    /\ command' = NoCommand /\ hash_commands' = 0 /\ rows_commands' = 0
    /\ cursor' = NoKey
    /\ table' = [table EXCEPT ![w] = 0]

\* ---------------------------------------------------------------- SyncQueue
\* abort(): sets the flag; TRUE iff this call was the first to set it
abort_is_first == ~aborted

\* wait_at_barrier(): all workers arrive before any proceeds; generation
\* counted; a waiter is released by abort and then throws aborted_error
\* a waiter is released once the generation it arrived in is over
released_early(w) == TRUE
released(w) == generation # my_generation[w]
Called(w) == barrier_calls' = [barrier_calls EXCEPT ![w] = @ + 1]
Returned(w) == barrier_returns' = [barrier_returns EXCEPT ![w] = @ + 1]
wait_at_barrier(w, to) ==
    \/ /\ ~in_barrier[w] /\ aborted
       /\ Throw(w, "aborted")
       /\ Called(w)
       /\ UNCHANGED <<waiting, generation, barVars, barrier_returns>>
    \/ /\ ~in_barrier[w] /\ ~aborted /\ waiting + 1 = num_workers
       /\ waiting' = 0 /\ generation' = generation + 1
       /\ Goto(w, to)
       /\ Called(w) /\ Returned(w)
       /\ UNCHANGED <<barVars, hAbort>>
    \/ /\ ~in_barrier[w] /\ ~aborted /\ waiting + 1 < num_workers
       /\ waiting' = waiting + 1
       /\ in_barrier' = [in_barrier EXCEPT ![w] = TRUE]
       /\ my_generation' = [my_generation EXCEPT ![w] = generation]
       /\ Called(w)
       /\ UNCHANGED <<generation, pc, hAbort, barrier_returns>>
    \/ /\ in_barrier[w] /\ aborted
       /\ in_barrier' = [in_barrier EXCEPT ![w] = FALSE]
       /\ my_generation' = [my_generation EXCEPT ![w] = 0]
       /\ Throw(w, "aborted")
       /\ UNCHANGED <<waiting, generation, hBar>>
    \/ /\ in_barrier[w] /\ ~aborted /\ released(w)
       /\ in_barrier' = [in_barrier EXCEPT ![w] = FALSE]
       /\ my_generation' = [my_generation EXCEPT ![w] = 0]
       /\ Goto(w, to)
       /\ Returned(w)
       /\ UNCHANGED <<waiting, generation, hAbort, barrier_calls>>

\* everything a barrier wait leaves alone
BarrierFrame ==
    UNCHANGED <<optVars, mainVars, aborted, sq_snapshot, queue, dbVars, table,
                sent, closed, hLoop, hSnap, hLead, quit_tried, ksVars, tblVars, fromVars, pipeVars>>

\* mutant: the leader compares the schema before it starts its transaction
AfterSnapshot_compare_schema(w) ==
    IF leader(w) THEN "compare_schema" ELSE "start_write_transaction"

\* where the leader-only parts of operator() send each worker
AfterSnapshot(w) ==
    IF leader(w) THEN "populate_database_schema" ELSE "start_write_transaction"
AfterStartTransaction(w) ==
    IF leader(w) THEN "compare_schema" ELSE "enqueue_barrier"

\* frames of the steps that only move the thread, or only send
OnlyPcSent ==
    UNCHANGED <<optVars, mainVars, queueVars, barVars, dbVars, table, closed,
                histVars, ksVars, tblVars, fromVars, pipeVars>>
OnlyPc == OnlyPcSent /\ UNCHANGED sent

\* ------------------------------------------------------------------ sync_to
\* sync_to's loop of new SyncToWorker: the constructor starts the thread
create_worker ==
    /\ ks_pc = "off" /\ result = "running" /\ created < num_workers
    /\ created' = created + 1
    /\ pc' = [pc EXCEPT ![created] = "negotiate_protocol"]
    /\ UNCHANGED <<optVars, result, queueVars, barVars, dbVars, table, sent,
                   closed, histVars, ksVars, tblVars, fromVars, pipeVars>>

\* sync_to after the destructors joined every thread
join_workers ==
    /\ ks_pc = "off" /\ result = "running" /\ created = num_workers
    /\ \A w \in Workers : pc[w] = "done"
    /\ result' = IF aborted THEN "sync_error" ELSE "ok"
    /\ UNCHANGED <<optVars, created, queueVars, pc, barVars, dbVars, table, sent,
                   closed, histVars, ksVars, tblVars, fromVars, pipeVars>>

\* -------------------------------------------------------------- negotiation
negotiate_protocol(w) ==
    \/ /\ pc[w] = "negotiate_protocol"
       /\ Send(w, "PROTOCOL") /\ Goto(w, "protocol_reply") /\ OnlyPcSent
    \/ /\ pc[w] = "protocol_reply"
       /\ Goto(w, "negotiate_target_block_size") /\ OnlyPc

\* mutant: share_snapshot without the test of the snapshot option
shares_snapshot_any == num_workers > 1

\* the branch share_snapshot takes
shares_snapshot == num_workers > 1 /\ snapshot

negotiate_target_block_size(w) ==
    \/ /\ pc[w] = "negotiate_target_block_size"
       /\ Send(w, "TARGET_BLOCK_SIZE") /\ Goto(w, "block_size_reply") /\ OnlyPcSent
    \/ /\ pc[w] = "block_size_reply"
       /\ Goto(w, IF shares_snapshot THEN "snapshot_barrier_1" ELSE "without_snapshot")
       /\ OnlyPc

\* ----------------------------------------------------------- share_snapshot

\* mutant: the leader does not wait before it asks for the snapshot
snapshot_barrier_1_leader_skips(w) ==
    /\ pc[w] = "snapshot_barrier_1"
    /\ IF leader(w)
         THEN Goto(w, "export_snapshot") /\ OnlyPc
         ELSE wait_at_barrier(w, "snapshot_barrier_2") /\ BarrierFrame

snapshot_barrier_1(w) ==
    /\ pc[w] = "snapshot_barrier_1"
    /\ wait_at_barrier(w, IF leader(w) THEN "export_snapshot" ELSE "snapshot_barrier_2")
    /\ BarrierFrame

export_snapshot(w) ==
    \/ /\ pc[w] = "export_snapshot"
       /\ Send(w, "EXPORT_SNAPSHOT") /\ Goto(w, "export_reply") /\ OnlyPcSent
    \/ /\ pc[w] = "export_reply"
       /\ \E token \in Tokens :
            /\ sq_snapshot' = token
            /\ export_token' = token
            /\ snap_writers' = Append(snap_writers, w)
       /\ Goto(w, "snapshot_barrier_2")
       /\ UNCHANGED <<optVars, mainVars, aborted, queue, waiting, generation, barVars,
                      dbVars, table, sent, closed, hAbort, hLoop, import_token,
                      hLead, hBar, quit_tried, ksVars, tblVars, fromVars, pipeVars>>

\* mutant: the leader's reply is not waited for
snapshot_barrier_2_skipped(w) ==
    /\ pc[w] = "snapshot_barrier_2"
    /\ Goto(w, IF leader(w) THEN "snapshot_barrier_3" ELSE "import_snapshot")
    /\ OnlyPc

snapshot_barrier_2(w) ==
    /\ pc[w] = "snapshot_barrier_2"
    /\ wait_at_barrier(w, IF leader(w) THEN "snapshot_barrier_3" ELSE "import_snapshot")
    /\ BarrierFrame

import_snapshot(w) ==
    \/ /\ pc[w] = "import_snapshot"
       /\ Send(w, "IMPORT_SNAPSHOT")
       /\ import_token' = [import_token EXCEPT ![w] = sq_snapshot]
       /\ Goto(w, "import_reply")
       /\ UNCHANGED <<optVars, mainVars, queueVars, barVars, dbVars, table, closed,
                      hAbort, hLoop, snap_writers, export_token, hLead, hBar, quit_tried,
                      ksVars, tblVars, fromVars, pipeVars>>
    \/ /\ pc[w] = "import_reply"
       /\ Goto(w, "snapshot_barrier_3") /\ OnlyPc

\* mutant: share_snapshot without its third wait_at_barrier
snapshot_barrier_3_skipped(w) ==
    /\ pc[w] = "snapshot_barrier_3"
    /\ Goto(w, IF leader(w) THEN "unhold_snapshot" ELSE AfterSnapshot(w))
    /\ OnlyPc

snapshot_barrier_3(w) ==
    /\ pc[w] = "snapshot_barrier_3"
    /\ wait_at_barrier(w, IF leader(w) THEN "unhold_snapshot" ELSE AfterSnapshot(w))
    /\ BarrierFrame

unhold_snapshot(w) ==
    \/ /\ pc[w] = "unhold_snapshot"
       /\ Send(w, "UNHOLD_SNAPSHOT") /\ Goto(w, "unhold_reply") /\ OnlyPcSent
    \/ /\ pc[w] = "unhold_reply"
       /\ Goto(w, AfterSnapshot(w)) /\ OnlyPc

without_snapshot(w) ==
    \/ /\ pc[w] = "without_snapshot"
       /\ Send(w, "WITHOUT_SNAPSHOT") /\ Goto(w, "without_reply") /\ OnlyPcSent
    \/ /\ pc[w] = "without_reply"
       /\ Goto(w, AfterSnapshot(w)) /\ OnlyPc

\* ------------------------------------------------- schema and transaction
populate_database_schema(w) ==
    /\ pc[w] = "populate_database_schema"
    /\ Goto(w, "start_write_transaction") /\ OnlyPc

start_write_transaction(w) ==
    /\ pc[w] = "start_write_transaction"
    /\ txn' = [txn EXCEPT ![w] = "open"]
    /\ Goto(w, AfterStartTransaction(w))
    /\ UNCHANGED <<optVars, mainVars, queueVars, barVars, ref_integrity, commit_attempts, table,
                   sent, closed, histVars, ksVars, tblVars, fromVars, pipeVars>>

compare_schema(w) ==
    \/ /\ pc[w] = "compare_schema"
       /\ Send(w, "SCHEMA") /\ Goto(w, "schema_reply") /\ OnlyPcSent
    \/ /\ pc[w] = "schema_reply"
       /\ schema_checked' = TRUE
       /\ Goto(w, "enqueue_tables")
       /\ UNCHANGED <<optVars, mainVars, queueVars, barVars, dbVars, table, sent,
                      closed, hAbort, hLoop, hSnap, enqueue_calls, hBar, quit_tried, ksVars, tblVars, fromVars, pipeVars>>

\* sync_queue.enqueue(): appends the tables left by ignore_tables / only_tables
enqueue(q, n) == q \o [i \in 1 .. n |-> i]

enqueue_tables(w) ==
    /\ pc[w] = "enqueue_tables"
    /\ queue' = enqueue(queue, tables)
    /\ enqueue_calls' = Append(enqueue_calls, w)
    /\ Goto(w, "enqueue_barrier")
    /\ UNCHANGED <<optVars, mainVars, aborted, sq_snapshot, waiting, generation,
                   barVars, dbVars, table, sent, closed, hAbort, hLoop, hSnap,
                   schema_checked, hBar, quit_tried, ksVars, tblVars, fromVars, pipeVars>>

\* mutant: enqueue_tables without its wait_at_barrier
enqueue_barrier_skipped(w) ==
    /\ pc[w] = "enqueue_barrier"
    /\ Goto(w, "disable_referential_integrity")
    /\ OnlyPc

enqueue_barrier(w) ==
    /\ pc[w] = "enqueue_barrier"
    /\ wait_at_barrier(w, "disable_referential_integrity")
    /\ BarrierFrame

\* ---------------------------------------------------------------- sync_tables
\* mutant: sync_tables without client.disable_referential_integrity()
disable_referential_integrity_skipped(w) ==
    /\ pc[w] = "disable_referential_integrity"
    /\ Goto(w, "pop")
    /\ OnlyPc

disable_referential_integrity(w) ==
    /\ pc[w] = "disable_referential_integrity"
    /\ ref_integrity' = [ref_integrity EXCEPT ![w] = FALSE]
    /\ Goto(w, "pop")
    /\ UNCHANGED <<optVars, mainVars, queueVars, barVars, txn, commit_attempts, table, sent, closed,
                   histVars, ksVars, tblVars, fromVars, pipeVars>>

\* mutant: a pop() that hands out the first table and leaves it in the queue
pop_without_removal(w) ==
    /\ pc[w] = "pop"
    /\ \/ /\ aborted
          /\ Throw(w, "aborted")
          /\ UNCHANGED <<table, pops, tables_done>>
       \/ /\ ~aborted /\ queue = <<>>
          /\ pops' = [pops EXCEPT ![w] = TRUE]
          /\ tables_done' = [tables_done EXCEPT ![w] = TRUE]
          /\ Goto(w, "tables_barrier")
          /\ UNCHANGED <<table, hAbort>>
       \/ /\ ~aborted /\ queue # <<>>
          /\ table' = [table EXCEPT ![w] = Head(queue)]
          /\ pops' = [pops EXCEPT ![w] = TRUE]
          /\ Goto(w, "open")
          /\ UNCHANGED <<tables_done, hAbort>>
    /\ UNCHANGED <<optVars, mainVars, queueVars, barVars, dbVars, sent, closed,
                   reads_after, sends_after, hSnap, hLead, hBar, quit_tried, ksVars, tblVars, fromVars, pipeVars>>

\* sync_queue.pop() and the test of its result in sync_tables
pop(w) ==
    /\ pc[w] = "pop"
    /\ \/ /\ aborted
          /\ Throw(w, "aborted")
          /\ UNCHANGED <<queue, table, pops, tables_done>>
       \/ /\ ~aborted /\ queue = <<>>
          /\ pops' = [pops EXCEPT ![w] = TRUE]
          /\ tables_done' = [tables_done EXCEPT ![w] = TRUE]
          /\ Goto(w, "tables_barrier")
          /\ UNCHANGED <<queue, table, hAbort>>
       \/ /\ ~aborted /\ queue # <<>>
          /\ table' = [table EXCEPT ![w] = Head(queue)]
          /\ queue' = Tail(queue)
          /\ pops' = [pops EXCEPT ![w] = TRUE]
          /\ Goto(w, "open")
          /\ UNCHANGED <<tables_done, hAbort>>
    /\ UNCHANGED <<optVars, mainVars, aborted, sq_snapshot, waiting, generation,
                   barVars, dbVars, sent, closed, reads_after,
                   sends_after, hSnap, hLead, hBar, quit_tried, ksVars, tblVars, fromVars, pipeVars>>

\* mutant: sync_tables without its wait_at_barrier
tables_barrier_skipped(w) ==
    /\ pc[w] = "tables_barrier"
    /\ Goto(w, "enable_referential_integrity")
    /\ OnlyPc

tables_barrier(w) ==
    /\ pc[w] = "tables_barrier"
    /\ wait_at_barrier(w, "enable_referential_integrity")
    /\ BarrierFrame

\* mutant: sync_tables returns without client.enable_referential_integrity()
enable_referential_integrity_skipped(w) ==
    /\ pc[w] = "enable_referential_integrity"
    /\ Goto(w, "commit_or_rollback")
    /\ OnlyPc

enable_referential_integrity(w) ==
    /\ pc[w] = "enable_referential_integrity"
    /\ ref_integrity' = [ref_integrity EXCEPT ![w] = TRUE]
    /\ Goto(w, "commit_or_rollback")
    /\ UNCHANGED <<optVars, mainVars, queueVars, barVars, txn, commit_attempts, table, sent, closed,
                   histVars, ksVars, tblVars, fromVars, pipeVars>>

\* ----------------------------------------------------------------- sync_table
\* 1 when the abort flag is already set (by another worker), else 0
AfterAbort == IF aborted THEN 1 ELSE 0

\* verbs whose handler calls check_hash_and_choose_next_range
HashVerbs == {"HASH_NEXT", "HASH_FAIL", "ROWS_AND_HASH_NEXT", "ROWS_AND_HASH_FAIL"}
\* verbs whose handler calls row_applier.stream_from_input
RowsVerbs == {"ROWS", "ROWS_AND_HASH_NEXT", "ROWS_AND_HASH_FAIL"}
\* the verbs of the combined commands
CombinedVerbs == {"ROWS_AND_HASH_NEXT", "ROWS_AND_HASH_FAIL"}
\* mutant: the loop breaks on every command that carries rows
table_finished_with_rows(verb, last_key_empty) == verb \in RowsVerbs

\* mutant: the loop never breaks
table_finished_never(verb, last_key_empty) == FALSE

\* mutant: the loop breaks on every plain ROWS
table_finished_any_rows(verb, last_key_empty) == verb = "ROWS"

\* the break of the loop: a plain ROWS whose last_key is empty
table_finished(verb, last_key_empty) == verb = "ROWS" /\ last_key_empty

\* send_command(output, Commands::OPEN, table.name)
send_open(w) ==
    /\ pc[w] = "open"
    /\ Send(w, "OPEN")
    /\ sends_after' = [sends_after EXCEPT ![w] = @ + AfterAbort]
    /\ Goto(w, "check_aborted")
    /\ UNCHANGED <<optVars, mainVars, queueVars, barVars, dbVars, table,
                   closed, hAbort, reads_after, pops, tables_done, hSnap, hLead, hBar,
                   quit_tried, ksVars, fromVars, pipeVars, src_rows, dst_rows, dst_rows0,
                   block_rows, input, syncVars>>

open(w) == send_open(w) /\ UNCHANGED output

\* mutant: the loop of sync_table without its check_aborted
check_aborted_skipped(w) ==
    /\ pc[w] = "check_aborted"
    /\ Goto(w, "read_command")
    /\ OnlyPc

check_aborted(w) ==
    /\ pc[w] = "check_aborted"
    /\ \/ aborted /\ Throw(w, "aborted") /\ Unwind(w)
       \/ ~aborted /\ Goto(w, "read_command") /\ UNCHANGED <<hAbort, table, syncVars>>
    /\ UNCHANGED <<optVars, mainVars, queueVars, barVars, dbVars, sent,
                   closed, hLoop, hSnap, hLead, hBar, quit_tried, ksVars, dataVars, fromVars, pipeVars>>

\* mutant: the else branch sends a command before it throws
read_command_answers_unknown(w) ==
    /\ pc[w] = "read_command"
    /\ \E verb \in TableVerbs, last_key_empty \in BOOLEAN :
         \/ /\ verb \in HashVerbs \cup RowsVerbs
            /\ sends_after' = [sends_after EXCEPT
                                 ![w] = @ + IF verb \in HashVerbs THEN AfterAbort ELSE 0]
            /\ IF table_finished(verb, last_key_empty)
                 THEN Goto(w, "pop") /\ table' = [table EXCEPT ![w] = 0]
                 ELSE Goto(w, "check_aborted") /\ UNCHANGED table
            /\ UNCHANGED <<hAbort, syncVars>>
         \/ /\ verb \notin HashVerbs \cup RowsVerbs
            /\ Throw(w, "error") /\ Unwind(w)
            /\ sends_after' = [sends_after EXCEPT ![w] = @ + AfterAbort]
    /\ reads_after' = [reads_after EXCEPT ![w] = @ + AfterAbort]
    /\ UNCHANGED <<optVars, mainVars, queueVars, barVars, dbVars, sent, closed,
                   pops, tables_done, hSnap, hLead, hBar, quit_tried, ksVars, dataVars, fromVars, pipeVars>>

\* one iteration of the loop after check_aborted, the rows left out: the read
\* of a command and its handler, which sends one range command if the verb
\* carries a hash, streams the rows in if it carries rows, and breaks the
\* loop on a plain ROWS to the end of the table
read_command(w) ==
    /\ pc[w] = "read_command"
    /\ \E verb \in TableVerbs, last_key_empty \in BOOLEAN :
         \/ /\ verb \in HashVerbs \cup RowsVerbs
            /\ sends_after' = [sends_after EXCEPT
                                 ![w] = @ + IF verb \in HashVerbs THEN AfterAbort ELSE 0]
            /\ IF table_finished(verb, last_key_empty)
                 THEN Goto(w, "pop") /\ table' = [table EXCEPT ![w] = 0]
                 ELSE Goto(w, "check_aborted") /\ UNCHANGED table
            /\ UNCHANGED <<hAbort, syncVars>>
         \/ /\ verb \notin HashVerbs \cup RowsVerbs
            /\ Throw(w, "error") /\ Unwind(w)
            /\ UNCHANGED sends_after
    /\ reads_after' = [reads_after EXCEPT ![w] = @ + AfterAbort]
    /\ UNCHANGED <<optVars, mainVars, queueVars, barVars, dbVars, sent, closed,
                   pops, tables_done, hSnap, hLead, hBar, quit_tried, ksVars, dataVars, fromVars, pipeVars>>

\* ------------------------------------------------------- the end of operator()
\* mutant: the try block commits whatever rollback_after says
commit_or_rollback_always_commits(w) ==
    /\ pc[w] = "commit_or_rollback"
    /\ txn' = [txn EXCEPT ![w] = "committed"]
    /\ commit_attempts' = [commit_attempts EXCEPT ![w] = @ + 1]
    /\ Goto(w, "send_quit_command")
    /\ UNCHANGED <<optVars, mainVars, queueVars, barVars, ref_integrity, table,
                   sent, closed, histVars, ksVars, tblVars, fromVars, pipeVars>>

commit_or_rollback(w) ==
    /\ pc[w] = "commit_or_rollback"
    /\ txn' = [txn EXCEPT ![w] = IF rollback_after THEN "rolled_back" ELSE "committed"]
    /\ commit_attempts' = [commit_attempts EXCEPT ![w] = IF rollback_after THEN @ ELSE @ + 1]
    /\ Goto(w, "send_quit_command")
    /\ UNCHANGED <<optVars, mainVars, queueVars, barVars, ref_integrity, table,
                   sent, closed, histVars, ksVars, tblVars, fromVars, pipeVars>>

\* the send may fail; send_quit_command swallows the failure
send_quit_command(w) ==
    /\ pc[w] = "send_quit_command"
    /\ quit_tried' = [quit_tried EXCEPT ![w] = TRUE]
    /\ \/ Send(w, "QUIT")
       \/ UNCHANGED sent
    /\ Goto(w, "close")
    /\ UNCHANGED <<optVars, mainVars, queueVars, barVars, dbVars, table, closed,
                   hAbort, hLoop, hSnap, hLead, hBar, ksVars, tblVars, fromVars, pipeVars>>

\* mutant: the catch block does not call sync_queue.abort()
catch_block_no_abort(w) ==
    /\ pc[w] = "catch"
    /\ Goto(w, IF partial THEN "partial_commit" ELSE "close")
    /\ OnlyPc

\* mutant: the catch block prints whatever abort() returns
catch_block_always_prints(w) ==
    /\ pc[w] = "catch"
    /\ printed' = printed + 1
    /\ early_abort' = (early_abort \/ (abort_is_first /\ \E v \in Workers : ~tables_done[v]))
    /\ aborted' = TRUE
    /\ Goto(w, IF partial THEN "partial_commit" ELSE "close")
    /\ UNCHANGED <<optVars, mainVars, sq_snapshot, queue, waiting, generation, barVars,
                   dbVars, table, sent, closed, caught, hLoop, hSnap, hLead, hBar,
                   quit_tried, ksVars, tblVars, fromVars, pipeVars>>

\* mutant: the catch block sends QUIT before closing
catch_block_then_quit(w) ==
    /\ pc[w] = "catch"
    /\ printed' = IF abort_is_first THEN printed + 1 ELSE printed
    /\ early_abort' = (early_abort \/ (abort_is_first /\ \E v \in Workers : ~tables_done[v]))
    /\ aborted' = TRUE
    /\ Goto(w, "send_quit_command")
    /\ UNCHANGED <<optVars, mainVars, sq_snapshot, queue, waiting, generation, barVars,
                   dbVars, table, sent, closed, caught, hLoop, hSnap, hLead, hBar,
                   quit_tried, ksVars, tblVars, fromVars, pipeVars>>

\* the catch block up to the test of partial
catch_block(w) ==
    /\ pc[w] = "catch"
    /\ printed' = IF abort_is_first THEN printed + 1 ELSE printed
    /\ early_abort' = (early_abort \/ (abort_is_first /\ \E v \in Workers : ~tables_done[v]))
    /\ aborted' = TRUE
    /\ Goto(w, IF partial THEN "partial_commit" ELSE "close")
    /\ UNCHANGED <<optVars, mainVars, sq_snapshot, queue, waiting, generation, barVars,
                   dbVars, table, sent, closed, caught, hLoop, hSnap, hLead, hBar,
                   quit_tried, ksVars, tblVars, fromVars, pipeVars>>

\* mutant: the commit of the catch block without its own try / catch (...)
partial_commit_unguarded(w) ==
    /\ pc[w] = "partial_commit"
    /\ commit_attempts' = [commit_attempts EXCEPT ![w] = @ + 1]
    /\ \/ /\ txn' = [txn EXCEPT ![w] = IF @ = "open" THEN "committed" ELSE @]
          /\ Goto(w, "close")
       \/ /\ txn' = [txn EXCEPT ![w] = "commit_failed"]
          /\ Goto(w, "done")
    /\ UNCHANGED <<optVars, mainVars, queueVars, barVars, ref_integrity, table,
                   sent, closed, histVars, ksVars, tblVars, fromVars, pipeVars>>

\* mutant: the failure of the commit of the catch block is printed
partial_commit_reported(w) ==
    /\ pc[w] = "partial_commit"
    /\ commit_attempts' = [commit_attempts EXCEPT ![w] = @ + 1]
    /\ \/ /\ txn' = [txn EXCEPT ![w] = IF @ = "open" THEN "committed" ELSE @]
          /\ UNCHANGED printed
       \/ /\ txn' = [txn EXCEPT ![w] = "commit_failed"]
          /\ printed' = printed + 1
    /\ Goto(w, "close")
    /\ UNCHANGED <<optVars, mainVars, queueVars, barVars, ref_integrity, table,
                   sent, closed, caught, early_abort, hLoop, hSnap, hLead, hBar,
                   quit_tried, ksVars, tblVars, fromVars, pipeVars>>

\* try { client.commit_transaction(); } catch (...) {}
partial_commit(w) ==
    /\ pc[w] = "partial_commit"
    /\ commit_attempts' = [commit_attempts EXCEPT ![w] = @ + 1]
    /\ \/ txn' = [txn EXCEPT ![w] = IF @ = "open" THEN "committed" ELSE @]
       \/ txn' = [txn EXCEPT ![w] = "commit_failed"]
    /\ Goto(w, "close")
    /\ UNCHANGED <<optVars, mainVars, queueVars, barVars, ref_integrity, table,
                   sent, closed, histVars, ksVars, tblVars, fromVars, pipeVars>>

close(w) ==
    /\ pc[w] = "close"
    /\ closed' = [closed EXCEPT ![w] = @ + 1]
    /\ Goto(w, "done")
    /\ UNCHANGED <<optVars, mainVars, queueVars, barVars, dbVars, table, sent,
                   histVars, ksVars, tblVars, fromVars, pipeVars>>

\* the steps of the try block that a stream, database or schema error can end
\* (a send that fails is not a step of its own: it ends the thread as the
\* failing read of its reply does)
Fallible ==
    {"protocol_reply", "block_size_reply", "export_reply", "import_reply",
     "unhold_reply", "without_reply", "populate_database_schema",
     "start_write_transaction", "schema_reply", "disable_referential_integrity",
     "read_command", "check_hash", "stream_rows", "enable_referential_integrity",
     "commit_or_rollback"}

\* of commit() and rollback() the client call is what throws
raise(w) ==
    /\ pc[w] \in Fallible
    /\ Throw(w, "error") /\ Unwind(w)
    /\ commit_attempts' = [commit_attempts EXCEPT ![w] =
            IF pc[w] = "commit_or_rollback" /\ ~rollback_after THEN @ + 1 ELSE @]
    /\ UNCHANGED <<optVars, mainVars, queueVars, barVars, txn, ref_integrity, sent,
                   closed, hLoop, hSnap, hLead, hBar, quit_tried, ksVars, dataVars, fromVars, pipeVars>>

\* ------------------------------------------- the rows of a table (TableSpec)
Keys == 1 .. MaxKey
RowValues == {"a", "b"}     \* what a row holds besides its key
NoRow == "none"
TableContents == [Keys -> RowValues \cup {NoRow}]

Min(a, b) == IF a <= b THEN a ELSE b

\* the key range (prev_key, last_key]: an empty prev_key is before the first
\* row, an empty last_key is past the last row
in_range(k, prev_key, last_key) ==
    k > prev_key /\ (last_key = NoKey \/ k <= last_key)

range_keys(rows, prev_key, last_key) ==
    {k \in Keys : rows[k] # NoRow /\ in_range(k, prev_key, last_key)}

retrieve_rows(rows, prev_key, last_key) ==
    {<<k, rows[k]>> : k \in range_keys(rows, prev_key, last_key)}

\* the hash of the rows of a range; an ideal hash, equal for equal rows only
hash_of(rows, prev_key, last_key) == retrieve_rows(rows, prev_key, last_key)

\* the key of the n-th row, in key order, among the rows with keys `keys`
nth_key(keys, n) == CHOOSE k \in keys : Cardinality({j \in keys : j <= k}) = n

\* the commands of the table dialogue
OpenCommand == [NoCommand EXCEPT !.verb = "OPEN"]
\* mutant: the command goes out without the hash of its range
send_hash_next_command_no_hash(prev_key, last_key, hash) ==
    [NoCommand EXCEPT !.verb = "HASH_NEXT", !.prev_key = prev_key,
                      !.last_key = last_key]

send_hash_next_command(prev_key, last_key, hash) ==
    [NoCommand EXCEPT !.verb = "HASH_NEXT", !.prev_key = prev_key,
                      !.last_key = last_key, !.hash = hash]
send_hash_fail_command(prev_key, last_key, failed_last_key, hash) ==
    [NoCommand EXCEPT !.verb = "HASH_FAIL", !.prev_key = prev_key,
                      !.last_key = last_key, !.failed_last_key = failed_last_key,
                      !.hash = hash]
\* mutant: every request for rows starts at the first row of the table
send_rows_command_from_start(prev_key, last_key) ==
    [NoCommand EXCEPT !.verb = "ROWS", !.last_key = last_key]

send_rows_command(prev_key, last_key) ==
    [NoCommand EXCEPT !.verb = "ROWS", !.prev_key = prev_key, !.last_key = last_key]

\* the range-selection policy: the command an end holding `rows` answers the
\* other end's hash of (prev_key, last_key] with
\*   match           the hash of up to twice as many rows after last_key, at
\*                   most block_rows of them; the request for the rest of the
\*                   table if this end has no rows after last_key
\*   no match, > 1   the hash of the first half of the rows of the range
\*   no match, <= 1  the request for the rows of the range
check_hash_and_choose_next_range(rows, prev_key, last_key, hash, limit) ==
    LET keys  == range_keys(rows, prev_key, last_key)
        count == Cardinality(keys)
        rest  == range_keys(rows, last_key, NoKey)
    IN  IF hash_of(rows, prev_key, last_key) = hash
          THEN IF rest = {}
                 THEN send_rows_command(last_key, NoKey)
                 ELSE LET next_key == nth_key(rest, Min(Min(2 * count, limit),
                                                        Cardinality(rest)))
                      IN  send_hash_next_command(
                              last_key, next_key, hash_of(rows, last_key, next_key))
          ELSE IF count > 1
                 THEN LET mid_key == nth_key(keys, count \div 2)
                      IN  send_hash_fail_command(
                              prev_key, mid_key, last_key, hash_of(rows, prev_key, mid_key))
                 ELSE send_rows_command(prev_key, last_key)

\* mutant: a row applier that writes the delivered rows and deletes none
stream_from_input_upsert(rows, prev_key, last_key, delivered) ==
    [k \in Keys |->
        IF in_range(k, prev_key, last_key) /\ \E r \in delivered : r[1] = k
          THEN (CHOOSE r \in delivered : r[1] = k)[2]
          ELSE rows[k]]

\* row applier: the rows of the range become the delivered rows
stream_from_input(rows, prev_key, last_key, delivered) ==
    [k \in Keys |->
        IF in_range(k, prev_key, last_key)
          THEN IF \E r \in delivered : r[1] = k
                 THEN (CHOOSE r \in delivered : r[1] = k)[2]
                 ELSE NoRow
          ELSE rows[k]]

\* ---- the source end
\* the first command after OPEN: the hash of the first block of the table
source_first(rows, limit) ==
    LET all == range_keys(rows, NoKey, NoKey)
    IN  IF all = {}
          THEN <<[send_rows_command(NoKey, NoKey) EXCEPT !.rows = {}]>>
          ELSE LET last_key == nth_key(all, Min(limit, Cardinality(all)))
               IN  <<send_hash_next_command(NoKey, last_key,
                                            hash_of(rows, NoKey, last_key))>>

\* the source sends the rows of (prev_key, last_key]: to the end of the table
\* in a plain ROWS when it has no rows after last_key, else together with
\* the hash of its next block, in one command or (split) in two
source_rows_reply(rows, prev_key, last_key, failed_last_key, limit, split) ==
    LET rest == range_keys(rows, last_key, NoKey)
    IN  IF last_key = NoKey \/ rest = {}
          THEN <<[send_rows_command(prev_key, NoKey)
                     EXCEPT !.rows = retrieve_rows(rows, prev_key, NoKey)]>>
          ELSE LET next_key == nth_key(rest, Min(limit, Cardinality(rest)))
                   hash     == hash_of(rows, last_key, next_key)
                   sent_rows == retrieve_rows(rows, prev_key, last_key)
                   failing  == failed_last_key # NoKey /\ last_key < failed_last_key
               IN  IF split
                     THEN <<[send_rows_command(prev_key, last_key)
                                EXCEPT !.rows = sent_rows],
                            send_hash_next_command(last_key, next_key, hash)>>
                     ELSE <<[NoCommand EXCEPT
                              !.verb = IF failing THEN "ROWS_AND_HASH_FAIL"
                                                  ELSE "ROWS_AND_HASH_NEXT",
                              !.prev_key = prev_key, !.last_key = last_key,
                              !.next_key = next_key,
                              !.failed_last_key = IF failing THEN failed_last_key
                                                             ELSE NoKey,
                              !.hash = hash, !.rows = sent_rows]>>

\* what the source answers a command of the destination with
source_reply(rows, cmd, limit, split) ==
    IF cmd.verb = "OPEN" THEN source_first(rows, limit)
    ELSE IF cmd.verb = "ROWS"
      THEN source_rows_reply(rows, cmd.prev_key, cmd.last_key, NoKey, limit, split)
    ELSE LET next == check_hash_and_choose_next_range(
                         rows, cmd.prev_key, cmd.last_key, cmd.hash, limit)
         IN  IF next.verb = "ROWS"
               THEN source_rows_reply(rows, next.prev_key, next.last_key,
                                      cmd.failed_last_key, limit, split)
               ELSE <<next>>

dialogueFrame ==
    UNCHANGED <<optVars, mainVars, queueVars, barVars, dbVars, sent,
                closed, histVars, ksVars, fromVars, pipeVars, src_rows, dst_rows0, block_rows>>

source_respond ==
    /\ output # <<>>
    /\ \E split \in BOOLEAN :
         input' = input \o source_reply(src_rows, Head(output), block_rows, split)
    /\ output' = Tail(output)
    /\ UNCHANGED <<pc, table, syncVars, dst_rows>>
    /\ dialogueFrame

\* ---- the destination end: sync_table with the rows
open_table == send_open(0) /\ output' = Append(output, OpenCommand)

\* mutant: the combined branches stream the rows in and send nothing before
input_command_rows_first ==
    /\ pc[0] = "read_command" /\ input # <<>>
    /\ command' = Head(input)
    /\ input' = Tail(input)
    /\ hash_commands' = hash_commands + IF Head(input).verb \in HashVerbs THEN 1 ELSE 0
    /\ rows_commands' = rows_commands + IF Head(input).verb \in RowsVerbs THEN 1 ELSE 0
    /\ Goto(0, IF Head(input).verb \in RowsVerbs THEN "stream_rows" ELSE "check_hash")
    /\ UNCHANGED <<table, output, dst_rows, cursor>>
    /\ dialogueFrame

\* input >> command, and the branch of the if-chain on command.verb
input_command ==
    /\ pc[0] = "read_command" /\ input # <<>>
    /\ command' = Head(input)
    /\ input' = Tail(input)
    /\ hash_commands' = hash_commands + IF Head(input).verb \in HashVerbs THEN 1 ELSE 0
    /\ rows_commands' = rows_commands + IF Head(input).verb \in RowsVerbs THEN 1 ELSE 0
    /\ Goto(0, IF Head(input).verb \in HashVerbs THEN "check_hash" ELSE "stream_rows")
    /\ UNCHANGED <<table, output, dst_rows, cursor>>
    /\ dialogueFrame

\* mutant: the combined branches check the hash over the range of the rows
hash_range_of_rows(cmd) == <<cmd.prev_key, cmd.last_key>>

\* the range whose hash the command carries: (prev_key, last_key] of a
\* HASH_NEXT or HASH_FAIL, (last_key, next_key] of a combined command
hash_range(cmd) ==
    IF cmd.verb \in RowsVerbs THEN <<cmd.last_key, cmd.next_key>>
                              ELSE <<cmd.prev_key, cmd.last_key>>

\* the call of check_hash_and_choose_next_range, which sends the next command
check_hash ==
    /\ pc[0] = "check_hash"
    /\ LET next == check_hash_and_choose_next_range(
                        dst_rows, hash_range(command)[1], hash_range(command)[2],
                        command.hash, block_rows)
       IN  output' = Append(output, next) /\ cursor' = next.prev_key
    /\ IF command.verb \in RowsVerbs
         THEN Goto(0, "stream_rows") /\ UNCHANGED command
         ELSE Goto(0, "check_aborted") /\ command' = NoCommand
    /\ UNCHANGED <<table, input, dst_rows, hash_commands, rows_commands>>
    /\ dialogueFrame

\* row_applier.stream_from_input(input, prev_key, last_key), and the break
stream_rows ==
    /\ pc[0] = "stream_rows"
    /\ dst_rows' = stream_from_input(dst_rows, command.prev_key, command.last_key,
                                     command.rows)
    /\ IF table_finished(command.verb, command.last_key = NoKey)
         THEN Goto(0, "pop") /\ Unwind(0)
         ELSE /\ Goto(0, "check_aborted") /\ command' = NoCommand
              /\ UNCHANGED <<table, hash_commands, rows_commands, cursor>>
    /\ UNCHANGED <<input, output>>
    /\ dialogueFrame

\* ------------------------------------------------ the source end (FromSpec)
\* A table of two declared columns.  Its key is the first column, or both
\* columns with the second column first; a table without a unique key is
\* read through the index on all its columns, equal rows as one row with
\* their number appended.
Vals == 1 .. MaxVal
AllRows == Vals \X Vals
KeyBounds(key_columns) == {<<>>} \cup [DOMAIN key_columns -> Vals]
count(t, row) == IF row \in t.twice THEN 2 ELSE 1
database_rows(t, rows) == Cardinality(rows) + Cardinality(rows \cap t.twice)
FromTables ==
    {[key_columns |-> <<1>>, unique |-> TRUE, rows |-> rows, twice |-> {}] :
        rows \in {s \in SUBSET AllRows :
                    /\ Cardinality(s) <= MaxRows
                    /\ \A r, q \in s : r[1] = q[1] => r = q}}
    \cup
    {[key_columns |-> <<2, 1>>, unique |-> TRUE, rows |-> rows, twice |-> {}] :
        rows \in {s \in SUBSET AllRows : Cardinality(s) <= MaxRows}}
    \cup
    UNION {{[key_columns |-> <<2, 1>>, unique |-> FALSE, rows |-> rows,
             twice |-> twice] :
               twice \in {d \in SUBSET rows : /\ Cardinality(d) <= 1
                                              /\ Cardinality(rows) + Cardinality(d)
                                                    <= MaxRows}} :
           rows \in {s \in SUBSET AllRows : Cardinality(s) <= MaxRows}}

\* mutant: the key is the leading columns in declared order
key_of_declared(row, key_columns) == [i \in DOMAIN key_columns |-> row[i]]

\* the key of a row: its key columns, in the order of the key
key_of(row, key_columns) == [i \in DOMAIN key_columns |-> row[key_columns[i]]]
\* keys compare column by column, the first key column first
key_less(a, b) ==
    \E i \in DOMAIN a : a[i] < b[i] /\ \A j \in 1 .. (i - 1) : a[j] = b[j]
\* the range (prev_key, last_key], an empty key for an open end
key_in_range(k, prev_key, last_key) ==
    /\ prev_key = <<>> \/ key_less(prev_key, k)
    /\ last_key = <<>> \/ ~key_less(last_key, k)
select_rows(t, prev_key, last_key) ==
    {row \in t.rows : key_in_range(key_of(row, t.key_columns), prev_key, last_key)}

\* the scan in key order: the first n of the rows, lowest key first
RECURSIVE scan(_, _, _)
scan(rows, key_columns, n) ==
    IF rows = {} \/ n = 0 THEN <<>>
    ELSE LET first == CHOOSE row \in rows :
                        \A q \in rows : ~key_less(key_of(q, key_columns),
                                                  key_of(row, key_columns))
         IN  <<first>> \o scan(rows \ {first}, key_columns, n - 1)

\* a row as it is sent: its columns in declared order, and the number of
\* equal rows where the key is not unique
packed_row(t, row) == IF t.unique THEN row ELSE Append(row, count(t, row))
packed_rows(t, rows) == [i \in DOMAIN rows |-> packed_row(t, rows[i])]
\* the hash of packed rows; an ideal hash, equal for equal rows only
hash_rows(rows) == <<"hash", rows>>

NoRequest == [verb |-> "none", prev_key |-> <<>>, last_key |-> <<>>, row_limit |-> 0]
NoReply == [verb |-> "none", prev_key |-> <<>>, last_key |-> <<>>, row_limit |-> 0,
            row_count |-> 0, hash |-> <<>>, rows |-> <<>>]

\* mutant: the scan does not stop at row_limit
hash_reply_unlimited(t, prev_key, last_key, row_limit) ==
    LET selected == select_rows(t, prev_key, last_key)
        rows == scan(selected, t.key_columns, Cardinality(selected))
    IN  [NoReply EXCEPT !.verb = "HASH", !.prev_key = prev_key,
                        !.last_key = last_key, !.row_limit = row_limit,
                        !.row_count = Len(rows),
                        !.hash = hash_rows(packed_rows(t, rows))]

\* mutant: row_count is the number of database rows read
hash_reply_database_rows(t, prev_key, last_key, row_limit) ==
    LET rows == scan(select_rows(t, prev_key, last_key), t.key_columns, row_limit)
    IN  [NoReply EXCEPT !.verb = "HASH", !.prev_key = prev_key,
                        !.last_key = last_key, !.row_limit = row_limit,
                        !.row_count = database_rows(t, {rows[i] : i \in DOMAIN rows}),
                        !.hash = hash_rows(packed_rows(t, rows))]

\* the reply to HASH [table, prev_key, last_key, row_limit]
hash_reply(t, prev_key, last_key, row_limit) ==
    LET rows == scan(select_rows(t, prev_key, last_key), t.key_columns, row_limit)
    IN  [NoReply EXCEPT !.verb = "HASH", !.prev_key = prev_key,
                        !.last_key = last_key, !.row_limit = row_limit,
                        !.row_count = Len(rows),
                        !.hash = hash_rows(packed_rows(t, rows))]
\* mutant: the row at prev_key is sent too
rows_reply_from_prev_key(t, prev_key, last_key) ==
    LET selected == select_rows(t, prev_key, last_key)
                       \cup {row \in t.rows : key_of(row, t.key_columns) = prev_key}
    IN  [NoReply EXCEPT !.verb = "ROWS", !.prev_key = prev_key,
                        !.last_key = last_key,
                        !.rows = packed_rows(t, scan(selected, t.key_columns,
                                                     Cardinality(selected)))]

\* the reply to ROWS [table, prev_key, last_key]
rows_reply(t, prev_key, last_key) ==
    LET selected == select_rows(t, prev_key, last_key)
    IN  [NoReply EXCEPT !.verb = "ROWS", !.prev_key = prev_key,
                        !.last_key = last_key,
                        !.rows = packed_rows(t, scan(selected, t.key_columns,
                                                     Cardinality(selected)))]

fromFrame == UNCHANGED <<toVars, ksVars, tblVars, pipeVars, from_table>>

\* send_command Commands::HASH / Commands::ROWS, to the source end
send_command(verb) ==
    /\ from_pc = "idle" /\ request = NoRequest
    /\ \E prev_key, last_key \in KeyBounds(from_table.key_columns),
          row_limit \in IF verb = "HASH" THEN 1 .. MaxRows ELSE {0} :
         request' = [verb |-> verb, prev_key |-> prev_key, last_key |-> last_key,
                     row_limit |-> row_limit]
    /\ from_pc' = "sent"
    /\ UNCHANGED <<reply, previous>>
    /\ fromFrame

\* the same request once more
send_again ==
    /\ from_pc = "idle" /\ request # NoRequest
    /\ from_pc' = "sent"
    /\ UNCHANGED <<request, reply, previous>>
    /\ fromFrame

\* the source end's handlers
hash_from ==
    /\ from_pc = "sent" /\ request.verb = "HASH"
    /\ reply' = hash_reply(from_table, request.prev_key, request.last_key,
                           request.row_limit)
    /\ from_pc' = "replied"
    /\ UNCHANGED <<request, previous>>
    /\ fromFrame

rows_from ==
    /\ from_pc = "sent" /\ request.verb = "ROWS"
    /\ reply' = rows_reply(from_table, request.prev_key, request.last_key)
    /\ from_pc' = "replied"
    /\ UNCHANGED <<request, previous>>
    /\ fromFrame

\* expect_command: the reply is read; it is kept for a repeat of the request
expect_command ==
    /\ from_pc = "replied"
    /\ \/ previous' = reply /\ UNCHANGED request
       \/ previous' = NoReply /\ request' = NoRequest
    /\ reply' = NoReply
    /\ from_pc' = "idle"
    /\ fromFrame

\* --------------------------------------------------------------- ks's main
\* the status of a main whose control reaches its closing brace: the outer
\* catch block of main ends without a return statement
ExitFallOffMain == 0

ksFrame == UNCHANGED <<toVars, ks_workers, tblVars, fromVars, pipeVars>>

\* option parsing: good options, or help() after required_option,
\* validation_error or --help
ks_parse ==
    /\ ks_pc = "parse"
    /\ \/ ks_pc' = "launch" /\ UNCHANGED ks_exit
       \/ ks_pc' = "exited" /\ ks_exit' = 1
    /\ UNCHANGED <<ks_children, ks_results, ks_success, ks_threw>>
    /\ ksFrame

\* fork_and_exec of the next child: workers 'from' children, then the 'to' child
ks_launch ==
    /\ ks_pc = "launch"
    /\ ks_children' = ks_children + 1
    /\ ks_pc' = IF ks_children' = ks_workers + 1 THEN "wait" ELSE "launch"
    /\ UNCHANGED <<ks_results, ks_success, ks_threw, ks_exit>>
    /\ ksFrame

\* success &= Process::wait_for_and_check(*ppid)
ks_wait ==
    /\ ks_pc = "wait" /\ Len(ks_results) < ks_children
    /\ \E ok \in BOOLEAN :
         /\ ks_results' = Append(ks_results, ok)
         /\ ks_success' = (ks_success /\ ok)
    /\ UNCHANGED <<ks_pc, ks_children, ks_threw, ks_exit>>
    /\ ksFrame

ks_return ==
    /\ ks_pc = "wait" /\ Len(ks_results) = ks_children
    /\ ks_exit' = IF ks_success THEN 0 ELSE 1
    /\ ks_pc' = "exited"
    /\ UNCHANGED <<ks_children, ks_results, ks_success, ks_threw>>
    /\ ksFrame

\* an exception while launching or waiting: caught, printed, and main ends
ks_catch ==
    /\ ks_pc \in {"launch", "wait"}
    /\ ks_threw' = TRUE
    /\ ks_exit' = ExitFallOffMain
    /\ ks_pc' = "exited"
    /\ UNCHANGED <<ks_children, ks_results, ks_success>>
    /\ ksFrame

\* ------------------------------------------------------------ specifications
KsOff ==
    /\ ks_pc = "off" /\ ks_workers = 0 /\ ks_children = 0 /\ ks_results = <<>>
    /\ ks_success = TRUE /\ ks_threw = FALSE /\ ks_exit = -1

FromOff ==
    /\ from_table = [key_columns |-> <<1>>, unique |-> TRUE, rows |-> {}, twice |-> {}]
    /\ from_pc = "off" /\ request = NoRequest /\ reply = NoReply
    /\ previous = NoReply

TableOff ==
    /\ src_rows = [k \in Keys |-> NoRow] /\ dst_rows = src_rows /\ dst_rows0 = src_rows
    /\ block_rows = 1 /\ input = <<>> /\ output = <<>> /\ NoTable

PipeOff ==
    /\ send_buffer_size = 0 /\ recv_buffer_size = 0 /\ send_buffer = 0
    /\ recv_buffer = <<>> /\ to_pc = "off" /\ peer_pc = "off" /\ rows_left = 0

ToStart ==
    /\ created = 0 /\ result = "running"
    /\ aborted = FALSE /\ sq_snapshot = "" /\ queue = <<>>
    /\ waiting = 0 /\ generation = 0
    /\ pc = [w \in W |-> "unstarted"]
    /\ in_barrier = [w \in W |-> FALSE]
    /\ my_generation = [w \in W |-> 0]
    /\ txn = [w \in W |-> "none"]
    /\ ref_integrity = [w \in W |-> TRUE]
    /\ commit_attempts = [w \in W |-> 0]
    /\ table = [w \in W |-> 0]
    /\ sent = [w \in W |-> <<>>]
    /\ closed = [w \in W |-> 0]
    /\ caught = [w \in W |-> "no"]
    /\ printed = 0
    /\ quit_tried = [w \in W |-> FALSE]
    /\ reads_after = [w \in W |-> 0]
    /\ sends_after = [w \in W |-> 0]
    /\ snap_writers = <<>>
    /\ export_token = ""
    /\ import_token = [w \in W |-> ""]
    /\ enqueue_calls = <<>>
    /\ schema_checked = FALSE
    /\ barrier_calls = [w \in W |-> 0]
    /\ barrier_returns = [w \in W |-> 0]
    /\ pops = [w \in W |-> FALSE]
    /\ tables_done = [w \in W |-> FALSE]
    /\ early_abort = FALSE

Init ==
    /\ num_workers \in 1 .. MaxWorkers
    /\ snapshot \in BOOLEAN
    /\ partial \in BOOLEAN
    /\ rollback_after \in BOOLEAN
    /\ tables \in 0 .. MaxTables
    /\ ToStart
    /\ PipeOff
    /\ KsOff
    /\ TableOff
    /\ FromOff

worker(w) ==
    \/ negotiate_protocol(w) \/ negotiate_target_block_size(w)
    \/ snapshot_barrier_1(w) \/ export_snapshot(w)
    \/ snapshot_barrier_2(w) \/ import_snapshot(w) \/ snapshot_barrier_3(w)
    \/ unhold_snapshot(w) \/ without_snapshot(w)
    \/ populate_database_schema(w) \/ start_write_transaction(w)
    \/ compare_schema(w) \/ enqueue_tables(w) \/ enqueue_barrier(w)
    \/ disable_referential_integrity(w) \/ pop(w) \/ open(w) \/ check_aborted(w)
    \/ read_command(w) \/ tables_barrier(w)
    \/ enable_referential_integrity(w) \/ commit_or_rollback(w)
    \/ send_quit_command(w) \/ raise(w) \/ catch_block(w) \/ partial_commit(w)
    \/ close(w)

Next == create_worker \/ join_workers \/ \E w \in W : worker(w)

Spec == Init /\ [][Next]_vars

\* every thread that can run does run; a blocked read returns
LiveSpec == Spec /\ WF_vars(create_worker) /\ WF_vars(join_workers)
                 /\ \A w \in W : WF_vars(worker(w))

\* ... and the dialogue of every table comes to its end
table_ends(w) == read_command(w) /\ pc'[w] = "pop"
TablesEndSpec == LiveSpec /\ \A w \in W : SF_vars(table_ends(w))

KsInit ==
    /\ num_workers = 1 /\ snapshot = FALSE /\ partial = FALSE
    /\ rollback_after = FALSE /\ tables = 0
    /\ ToStart
    /\ PipeOff
    /\ TableOff
    /\ FromOff
    /\ ks_pc = "parse" /\ ks_workers \in 1 .. MaxKsWorkers /\ ks_children = 0
    /\ ks_results = <<>> /\ ks_success = TRUE /\ ks_threw = FALSE /\ ks_exit = -1

KsNext == ks_parse \/ ks_launch \/ ks_wait \/ ks_return \/ ks_catch

KsSpec == KsInit /\ [][KsNext]_vars

\* one worker, no snapshot, one table: the state in which pop() has handed
\* the table to the worker, with any rows at either end; partial mode is on,
\* so that an error in the middle of the table commits what was applied
TableInit ==
    /\ PipeOff
    /\ num_workers = 1 /\ snapshot = FALSE /\ tables = 1
    /\ partial = TRUE /\ rollback_after \in BOOLEAN
    /\ created = 1 /\ result = "running"
    /\ aborted = FALSE /\ sq_snapshot = "" /\ queue = <<>>
    /\ waiting = 0 /\ generation = 1
    /\ pc = [w \in W |-> IF w = 0 THEN "open" ELSE "unstarted"]
    /\ in_barrier = [w \in W |-> FALSE]
    /\ my_generation = [w \in W |-> 0]
    /\ txn = [w \in W |-> IF w = 0 THEN "open" ELSE "none"]
    /\ ref_integrity = [w \in W |-> w # 0]
    /\ commit_attempts = [w \in W |-> 0]
    /\ table = [w \in W |-> IF w = 0 THEN 1 ELSE 0]
    /\ sent = [w \in W |-> IF w = 0 THEN <<<<"PROTOCOL", 0>>, <<"TARGET_BLOCK_SIZE", 0>>,
                                           <<"WITHOUT_SNAPSHOT", 0>>, <<"SCHEMA", 0>>>>
                                    ELSE <<>>]
    /\ closed = [w \in W |-> 0]
    /\ caught = [w \in W |-> "no"]
    /\ printed = 0
    /\ quit_tried = [w \in W |-> FALSE]
    /\ reads_after = [w \in W |-> 0]
    /\ sends_after = [w \in W |-> 0]
    /\ snap_writers = <<>>
    /\ export_token = ""
    /\ import_token = [w \in W |-> ""]
    /\ enqueue_calls = <<0>>
    /\ schema_checked = TRUE
    /\ barrier_calls = [w \in W |-> IF w = 0 THEN 1 ELSE 0]
    /\ barrier_returns = [w \in W |-> IF w = 0 THEN 1 ELSE 0]
    /\ pops = [w \in W |-> w = 0]
    /\ tables_done = [w \in W |-> FALSE]
    /\ early_abort = FALSE
    /\ KsOff
    /\ src_rows \in TableContents /\ dst_rows \in TableContents
    /\ dst_rows0 = dst_rows
    /\ block_rows \in 1 .. MaxKey
    /\ input = <<>> /\ output = <<>> /\ NoTable
    /\ FromOff

\* the steps of the worker and its peer that no error ends
table_step ==
    \/ open_table \/ source_respond \/ check_aborted(0) \/ input_command
    \/ check_hash \/ stream_rows \/ pop(0) \/ tables_barrier(0)
    \/ enable_referential_integrity(0) \/ commit_or_rollback(0)
    \/ send_quit_command(0) \/ catch_block(0) \/ partial_commit(0)
    \/ close(0) \/ join_workers

TableNext == table_step \/ raise(0)

TableSpec == TableInit /\ [][TableNext]_vars

\* the worker and its peer run while they can; nothing makes an error happen
TableLiveSpec == TableSpec /\ WF_vars(table_step)

\* the source end with any table, before the first command
FromInit ==
    /\ num_workers = 1 /\ snapshot = FALSE /\ partial = FALSE
    /\ rollback_after = FALSE /\ tables = 0
    /\ ToStart
    /\ PipeOff
    /\ KsOff
    /\ TableOff
    /\ from_table \in FromTables
    /\ from_pc = "idle" /\ request = NoRequest /\ reply = NoReply
    /\ previous = NoReply

FromNext ==
    \/ send_command("HASH") \/ send_command("ROWS")
    \/ send_again \/ hash_from \/ rows_from \/ expect_command

FromSpec == FromInit /\ [][FromNext]_vars

\* ----------------------------------------- bounded stream buffers (PipeSpec)
\* A worker in the combined branches of sync_table and its peer, each writing
\* to a stream whose buffer is bounded: a write blocks while the buffer is
\* full, unless the reader is waiting for it.
pipeFrame == UNCHANGED <<toVars, ksVars, tblVars, fromVars,
                         send_buffer_size, recv_buffer_size>>

recv_room == Len(recv_buffer) < recv_buffer_size

\* the peer answers the command it read with a combined command: the header
peer_write_command ==
    /\ peer_pc = "write_command" /\ recv_room
    /\ recv_buffer' = Append(recv_buffer, "command")
    /\ rows_left' \in 0 .. MaxStreamed
    /\ peer_pc' = "write_rows"
    /\ UNCHANGED <<send_buffer, to_pc>>
    /\ pipeFrame

\* ... and the rows of (prev_key, last_key], closed by the end of the rows
peer_write_rows ==
    /\ peer_pc = "write_rows" /\ recv_room
    /\ IF rows_left > 0
         THEN /\ recv_buffer' = Append(recv_buffer, "row")
              /\ rows_left' = rows_left - 1
              /\ UNCHANGED peer_pc
         ELSE /\ recv_buffer' = Append(recv_buffer, "end")
              /\ peer_pc' = "read_command"
              /\ UNCHANGED rows_left
    /\ UNCHANGED <<send_buffer, to_pc>>
    /\ pipeFrame

\* the peer reads the next command once it has written its answer
peer_read_command ==
    /\ peer_pc = "read_command" /\ send_buffer > 0
    /\ send_buffer' = send_buffer - 1
    /\ peer_pc' = "write_command"
    /\ UNCHANGED <<recv_buffer, to_pc, rows_left>>
    /\ pipeFrame

\* input >> command, of a combined command
pipe_read_command ==
    /\ to_pc = "read_command"
    /\ recv_buffer # <<>> /\ Head(recv_buffer) = "command"
    /\ recv_buffer' = Tail(recv_buffer)
    /\ to_pc' = "send_command"
    /\ UNCHANGED <<send_buffer, peer_pc, rows_left>>
    /\ pipeFrame

\* check_hash_and_choose_next_range sends the next command: into the buffer,
\* or with a full buffer straight to a peer that is reading
pipe_send_command ==
    /\ to_pc = "send_command"
    /\ \/ /\ send_buffer < send_buffer_size
          /\ send_buffer' = send_buffer + 1
          /\ UNCHANGED peer_pc
       \/ /\ send_buffer >= send_buffer_size
          /\ send_buffer = 0 /\ peer_pc = "read_command"
          /\ peer_pc' = "write_command"
          /\ UNCHANGED send_buffer
    /\ to_pc' = "stream_from_input"
    /\ UNCHANGED <<recv_buffer, rows_left>>
    /\ pipeFrame

\* mutant: the worker sends a second command after the rows
pipe_stream_from_input_resend ==
    /\ to_pc = "stream_from_input" /\ recv_buffer # <<>>
    /\ recv_buffer' = Tail(recv_buffer)
    /\ to_pc' = IF Head(recv_buffer) = "end" THEN "send_command" ELSE to_pc
    /\ UNCHANGED <<send_buffer, peer_pc, rows_left>>
    /\ pipeFrame

\* row_applier.stream_from_input reads the rows up to their end
pipe_stream_from_input ==
    /\ to_pc = "stream_from_input" /\ recv_buffer # <<>>
    /\ recv_buffer' = Tail(recv_buffer)
    /\ to_pc' = IF Head(recv_buffer) = "end" THEN "read_command" ELSE to_pc
    /\ UNCHANGED <<send_buffer, peer_pc, rows_left>>
    /\ pipeFrame

\* the peer has read a command of the worker and is about to answer it with
\* a combined command; the buffers, of any size, are empty
PipeInit ==
    /\ num_workers = 1 /\ snapshot = FALSE /\ partial = FALSE
    /\ rollback_after = FALSE /\ tables = 0
    /\ ToStart /\ KsOff /\ TableOff /\ FromOff
    /\ send_buffer_size \in 0 .. MaxBuffer
    /\ recv_buffer_size \in 1 .. MaxBuffer
    /\ send_buffer = 0 /\ recv_buffer = <<>>
    /\ to_pc = "read_command" /\ peer_pc = "write_command" /\ rows_left = 0

PipeNext ==
    \/ peer_write_command \/ peer_write_rows \/ peer_read_command
    \/ pipe_read_command \/ pipe_send_command \/ pipe_stream_from_input

PipeSpec == PipeInit /\ [][PipeNext]_vars

\* ===================================================================== claims

\* C1: when sync_table has run to its end (the plain ROWS with an empty
\* last_key was received) and the worker's transaction is committed, the
\* destination table holds the rows of the source table.
C1_RowsEqual ==
    (tables_done[0] /\ txn[0] = "committed") => dst_rows = src_rows

C1_Witness ==
    /\ tables_done[0] /\ txn[0] = "committed" /\ pc[0] = "done"
    /\ dst_rows = src_rows
    /\ \E k \in Keys : dst_rows0[k] # NoRow /\ src_rows[k] = NoRow
    /\ \E k \in Keys : dst_rows0[k] = NoRow /\ src_rows[k] # NoRow
    /\ \E k \in Keys : dst_rows0[k] = "a" /\ src_rows[k] = "b"

\* C2: ks exits with status 0 exactly when it launched every child, every
\* child succeeded and ks raised no exception; with status 1 otherwise.
C2_ExitStatus ==
    ks_pc = "exited" =>
        (ks_exit = 0 <=> /\ ~ks_threw
                         /\ Len(ks_results) = ks_workers + 1
                         /\ \A i \in DOMAIN ks_results : ks_results[i])

\* C3: once the abort flag is set, a worker inside the per-table loop reads at
\* most one further command and sends at most one further command.
C3_OneCommandBoundary ==
    \A w \in W : reads_after[w] <= 1 /\ sends_after[w] <= 1

C3_Witness ==
    \E w \in W : /\ reads_after[w] = 1 /\ sends_after[w] = 1
                 /\ caught[w] = "aborted" /\ closed[w] = 1

C5_NoCommitOnAbort ==
    (~partial /\ aborted) => \A w \in W : txn[w] # "committed"

\* C5 amended: with partial mode off, an abort set before every worker has
\* finished its tables means that no transaction is committed, and a worker
\* that raised or observed abort never commits.
C5_NoCommitOnEarlyAbort ==
    ~partial => /\ early_abort => \A w \in W : txn[w] # "committed"
                /\ \A w \in W : caught[w] # "no" => txn[w] # "committed"

C5_Witness ==
    /\ ~partial /\ early_abort
    /\ \A w \in Workers : pc[w] = "done"
    /\ \E w \in Workers : tables_done[w] /\ caught[w] = "aborted"

\* C6: however many workers raise, abort() returns true for exactly one of them
\* and one error message is printed; the abort flag is never cleared.
C6_SingleReport ==
    /\ [](/\ printed <= 1
          /\ (\E w \in W : caught[w] # "no" /\ pc[w] # "catch") => printed = 1)
    /\ [][aborted => aborted']_vars

C6_Witness ==
    \E w, v \in Workers :
        /\ w # v /\ caught[w] = "error" /\ caught[v] = "error"
        /\ pc[w] = "done" /\ pc[v] = "done" /\ printed = 1

\* C7: a worker's thread has ended exactly when it has closed its output
\* stream, and it closes it once, also when the commit of the catch block fails.
C7_ClosesOnce ==
    \A w \in W : closed[w] = (IF pc[w] = "done" THEN 1 ELSE 0)

C7_Witness ==
    \E w \in W : pc[w] = "done" /\ txn[w] = "commit_failed" /\ closed[w] = 1

\* C8 as stated: a worker that observed abort has attempted QUIT by the time
\* it has closed its output stream.
C8_QuitOnAbort ==
    \A w \in W : (caught[w] = "aborted" /\ closed[w] = 1) => quit_tried[w]

\* C8 amended: a worker that raised or observed abort sends nothing more, not
\* even QUIT, before it closes its output stream; QUIT is attempted only
\* after commit or rollback on the path without exception.
C8_NoQuitOnAbort ==
    /\ [](\A w \in W :
            /\ caught[w] # "no" => ~quit_tried[w]
            /\ quit_tried[w] => txn[w] \in {"committed", "rolled_back"})
    /\ [][\A w \in W : caught[w] # "no" => sent'[w] = sent[w]]_vars

C8_Witness ==
    \E w \in W : caught[w] = "aborted" /\ closed[w] = 1 /\ ~quit_tried[w]

\* C9: only the leader sends SCHEMA, EXPORT_SNAPSHOT and UNHOLD_SNAPSHOT and
\* calls enqueue, once; no worker pops or sends OPEN before the leader has
\* compared the schemas and enqueued.
C9_LeaderOnly ==
    /\ \A w \in W : sent_verbs(w) \cap {"SCHEMA", "EXPORT_SNAPSHOT", "UNHOLD_SNAPSHOT"} # {}
                       => leader(w)
    /\ Len(enqueue_calls) <= 1
    /\ \A i \in DOMAIN enqueue_calls : leader(enqueue_calls[i])
    /\ \A w \in W : (pops[w] \/ "OPEN" \in sent_verbs(w))
                       => (schema_checked /\ Len(enqueue_calls) = 1)

C9_Witness ==
    \E w \in W : ~leader(w) /\ "OPEN" \in sent_verbs(w) /\ "SCHEMA" \in sent_verbs(0)

\* C10: the snapshot token is written once, by the leader; a non-leader sends
\* IMPORT_SNAPSHOT only after that write, with the token the leader received.
C10_SnapshotToken ==
    /\ Len(snap_writers) <= 1
    /\ \A i \in DOMAIN snap_writers : leader(snap_writers[i])
    /\ \A w \in W : "IMPORT_SNAPSHOT" \in sent_verbs(w) =>
          /\ ~leader(w) /\ Len(snap_writers) = 1
          /\ export_token \in Tokens /\ import_token[w] = export_token

C10_Witness ==
    \E w \in W : /\ "IMPORT_SNAPSHOT" \in sent_verbs(w)
                 /\ import_token[w] = export_token /\ pc[w] = "done"
                 /\ txn[w] = "committed"

\* C11: in a run of one worker or without the snapshot option every worker
\* sends WITHOUT_SNAPSHOT once (exactly once when it has got past
\* share_snapshot), none sends EXPORT_SNAPSHOT, IMPORT_SNAPSHOT or
\* UNHOLD_SNAPSHOT, and no worker is ever at a barrier of share_snapshot.
SnapshotBarriers == {"snapshot_barrier_1", "snapshot_barrier_2", "snapshot_barrier_3"}

C11_WithoutSnapshot ==
    (~snapshot \/ num_workers = 1) =>
        \A w \in W :
            /\ times_sent(w, "WITHOUT_SNAPSHOT") <= 1
            /\ txn[w] \in {"open", "committed", "rolled_back"}
                   => times_sent(w, "WITHOUT_SNAPSHOT") = 1
            /\ sent_verbs(w) \cap {"EXPORT_SNAPSHOT", "IMPORT_SNAPSHOT",
                                    "UNHOLD_SNAPSHOT"} = {}
            /\ pc[w] \notin SnapshotBarriers
            /\ in_barrier[w] => pc[w] \in {"enqueue_barrier", "tables_barrier"}

C11_Witness ==
    /\ ~snapshot /\ num_workers > 1
    /\ \A w \in Workers : /\ pc[w] = "done" /\ txn[w] = "committed"
                            /\ times_sent(w, "WITHOUT_SNAPSHOT") = 1

\* C12: each table is opened at most once and by one worker, however the
\* pop calls interleave; no two workers hold the same table; a worker inside
\* the loop of sync_table is the one that sent OPEN for its table, as its
\* last command on its own stream; a run that ends without abort has opened
\* every table of the schema once.
opens(t) ==
    UNION {{<<w, i>> : i \in {j \in DOMAIN sent[w] : sent[w][j] = <<"OPEN", t>>}} : w \in W}

C12_OneWorkerPerTable ==
    /\ \A t \in 1 .. MaxTables : Cardinality(opens(t)) <= 1
    /\ \A w, v \in W : (w # v /\ table[w] # 0) => table[w] # table[v]
    /\ \A w \in W : pc[w] \in {"check_aborted", "read_command"} =>
          /\ table[w] # 0
          /\ sent[w] # <<>> /\ sent[w][Len(sent[w])] = <<"OPEN", table[w]>>
    /\ result = "ok" => \A t \in 1 .. tables : Cardinality(opens(t)) = 1

C12_Witness ==
    /\ result = "ok" /\ num_workers > 1 /\ tables >= 1
    /\ \E w \in Workers : ~leader(w) /\ <<w, Len(sent[w]) - 1>> \in opens(1)
    /\ \A w \in Workers : pops[w]

\* C13: sync_table returns normally exactly on a plain ROWS whose last_key is
\* empty, after its rows were streamed in: a step that ends the table without
\* an exception is that one, and the handler of every other command goes back
\* to the top of the loop with the table still open.  The worker sends only
\* in OPEN and in check_hash_and_choose_next_range, which it enters only from
\* reading a command that carries a hash: after a plain ROWS it sends nothing
\* before it has read the next command.
C13_ReturnsOnFinalRows ==
    [][/\ (table[0] # 0 /\ table'[0] = 0 /\ pc'[0] # "catch")
            => /\ pc[0] = "stream_rows" /\ pc'[0] = "pop"
               /\ command.verb = "ROWS" /\ command.last_key = NoKey
       /\ (pc[0] = "stream_rows" /\ pc'[0] \notin {"stream_rows", "catch"})
            => IF command.verb = "ROWS" /\ command.last_key = NoKey
                 THEN pc'[0] = "pop" /\ table'[0] = 0
                 ELSE pc'[0] = "check_aborted" /\ table'[0] = table[0]
                      /\ Len(output') <= Len(output)
       /\ (pc[0] = "check_hash" /\ pc'[0] \notin {"check_hash", "catch"})
            => table'[0] = table[0] /\ pc'[0] \in {"stream_rows", "check_aborted"}
       /\ Len(output') > Len(output) => pc[0] \in {"open", "check_hash"}
       /\ (pc'[0] = "check_hash" /\ pc[0] # "check_hash")
            => pc[0] = "read_command" /\ command'.verb \in HashVerbs
      ]_vars

C13_Witness ==
    /\ pc[0] = "stream_rows" /\ command.verb = "ROWS" /\ command.last_key # NoKey
    /\ Len(input) = 1 /\ output = <<>>

\* C14: within a table the prev_key of each range command the destination
\* sends is at least the prev_key of the range command it sent before it, and
\* so of every earlier one: the cursor never moves back.
C14_MonotonicCursor ==
    [][Len(output') > Len(output) /\ pc[0] = "check_hash"
          => /\ output'[Len(output')].prev_key >= cursor
             /\ cursor' = output'[Len(output')].prev_key
      ]_vars

C14_Witness ==
    /\ hash_commands >= 2 /\ cursor # NoKey
    /\ output # <<>> /\ output[Len(output)].prev_key = cursor
    /\ output[Len(output)].verb = "HASH_FAIL"

\* the commands of the table in flight or being handled
Commands(stream) == {stream[i] : i \in DOMAIN stream}
flowing == (Commands(input) \cup Commands(output) \cup {command}) \ {NoCommand}
\* the table held the same rows at both ends when the run began
identical == dst_rows0 = src_rows

covered ==
    /\ identical
    /\ range_keys(src_rows, NoKey, NoKey) # {}
    /\ block_rows >= Cardinality(range_keys(src_rows, NoKey, NoKey))
\* the step in which sync_table returns
table_completes == pc[0] = "stream_rows" /\ pc'[0] = "pop"

requested ==
    {row \in from_table.rows :
        LET k == key_of(row, from_table.key_columns)
        IN  /\ request.prev_key = <<>> \/ key_less(request.prev_key, k)
            /\ \/ request.last_key = <<>> \/ k = request.last_key
               \/ key_less(k, request.last_key)}
\* the columns of a row sent, and the key of a row sent
unpacked(row) == <<row[1], row[2]>>
sent_key(row) == key_of(unpacked(row), from_table.key_columns)
\* rows sent are the lowest n of the requested rows, each once, in ascending
\* key order
first_requested(rows, n) ==
    /\ Len(rows) = n
    /\ \A i \in DOMAIN rows :
          /\ unpacked(rows[i]) \in requested
          /\ rows[i] = packed_row(from_table, unpacked(rows[i]))
    /\ \A i, j \in DOMAIN rows : i < j => key_less(sent_key(rows[i]), sent_key(rows[j]))
    /\ \A row \in requested \ {unpacked(rows[i]) : i \in DOMAIN rows} :
          \A i \in DOMAIN rows :
              key_less(sent_key(rows[i]), key_of(row, from_table.key_columns))

composite == Len(from_table.key_columns) = 2
key_column(row, i) == row[from_table.key_columns[i]]
\* the row's key is after the bound, and row r is before row q, comparing
\* the first key column first
after_bound(row, bound) ==
    \/ key_column(row, 1) > bound[1]
    \/ key_column(row, 1) = bound[1] /\ key_column(row, 2) > bound[2]
row_before(r, q) ==
    \/ key_column(r, 1) < key_column(q, 1)
    \/ key_column(r, 1) = key_column(q, 1) /\ key_column(r, 2) < key_column(q, 2)
lexicographic_range ==
    {row \in from_table.rows :
        /\ request.prev_key = <<>> \/ after_bound(row, request.prev_key)
        /\ request.last_key = <<>> \/ ~after_bound(row, request.last_key)}
\* the rows of a reply: those sent, or those hashed
reply_rows == IF reply.verb = "HASH" THEN reply.hash[2] ELSE reply.rows

\* C19: with a key of several columns the rows of a HASH or ROWS reply are
\* the rows whose key lies in the range by lexicographic comparison in
\* key-column order, a bound matching no row included, in that order, and
\* each row carries its columns in declared order.
C19_CompositeKeys ==
    (from_pc = "replied" /\ composite) =>
        /\ \A i \in DOMAIN reply_rows : unpacked(reply_rows[i]) \in lexicographic_range
        /\ \A i, j \in DOMAIN reply_rows :
              i < j => row_before(unpacked(reply_rows[i]), unpacked(reply_rows[j]))
        /\ Len(reply_rows) = IF reply.verb = "HASH"
                               THEN Min(request.row_limit, Cardinality(lexicographic_range))
                               ELSE Cardinality(lexicographic_range)
        /\ \A row \in lexicographic_range \ {unpacked(reply_rows[i]) : i \in DOMAIN reply_rows} :
              \A i \in DOMAIN reply_rows : row_before(unpacked(reply_rows[i]), row)

\* a bound that is no row's key splits the rows, and a row it lets through
\* would not pass a comparison in declared column order
C19_Witness ==
    /\ from_pc = "replied" /\ composite /\ reply.verb = "ROWS"
    /\ request.prev_key # <<>>
    /\ \A row \in from_table.rows : sent_key(row) # request.prev_key
    /\ reply.rows # <<>> /\ from_table.rows \ lexicographic_range # {}
    /\ \E i \in DOMAIN reply.rows : ~key_less(request.prev_key, unpacked(reply.rows[i]))

\* the distinct rows the hash of the reply covers
hashed_rows == {unpacked(reply.hash[2][i]) : i \in DOMAIN reply.hash[2]}

\* C20 (as stated): row_count is the number of database rows scanned for the
\* hash, also on a non-unique index with duplicate rows.
C20_CountsDatabaseRows ==
    (from_pc = "replied" /\ reply.verb = "HASH") =>
        reply.row_count = database_rows(from_table, hashed_rows)

\* C20 (amended): row_count is the number of rows of the reply's hash.  With
\* a unique key these are the database rows scanned.  On a non-unique index
\* equal rows are one row that carries their number, and count as one in
\* row_count and against row_limit.
C20_CountsDistinctRows ==
    (from_pc = "replied" /\ reply.verb = "HASH") =>
        /\ reply.row_count = Cardinality(hashed_rows)
        /\ reply.row_count = Len(reply.hash[2])
        /\ reply.row_count <= request.row_limit
        /\ from_table.unique => reply.row_count = database_rows(from_table, hashed_rows)
        /\ ~from_table.unique =>
              /\ \A i \in DOMAIN reply.hash[2] :
                    reply.hash[2][i][3] =
                        IF unpacked(reply.hash[2][i]) \in from_table.twice THEN 2 ELSE 1
              /\ database_rows(from_table, hashed_rows)
                    = reply.row_count + Cardinality(hashed_rows \cap from_table.twice)

C20_Witness ==
    /\ from_pc = "replied" /\ reply.verb = "HASH" /\ ~from_table.unique
    /\ reply.row_count = 2 /\ request.row_limit = 2
    /\ database_rows(from_table, hashed_rows) = 3

\* C21: for every k, no worker returns from its k-th wait_at_barrier call
\* before every worker has made its k-th call, over the consecutive uses of
\* the barrier in one run; the workers counted as waiting are those that
\* arrived in the current generation, so a worker that re-enters the barrier
\* while a waiter of the previous generation has not woken yet is counted in
\* the new generation only and releases nobody.
C21_BarrierGenerations ==
    /\ \A w, v \in Workers : barrier_returns[w] <= barrier_calls[v]
    /\ ~aborted =>
         waiting = Cardinality({w \in Workers :
                       in_barrier[w] /\ my_generation[w] = generation})

C21_Witness ==
    \E w, v \in Workers :
        /\ in_barrier[w] /\ in_barrier[v]
        /\ my_generation[w] = generation /\ my_generation[v] # generation
        /\ barrier_calls[w] = 2 /\ barrier_returns[w] = 1
        /\ barrier_returns[v] = 0 /\ waiting = 1

\* C22 as stated: in partial mode a worker that raised an error or observed
\* the abort has, once finished, attempted to commit exactly once and closed
\* its output stream.
C22_CommitsExactlyOnce ==
    \A w \in Workers :
        (partial /\ caught[w] # "no" /\ pc[w] = "done") =>
            commit_attempts[w] = 1 /\ closed[w] = 1

\* C22 amended: in partial mode the catch block of a worker attempts to commit
\* exactly once: one attempt between the catch and the close of the output
\* stream, which makes one attempt in all unless the error was the failure of
\* the worker's own commit at the end of the try block, and then two.  The
\* attempt, failed or not, prints nothing, leaves the abort flag and what
\* each worker caught alone, and is followed by the close of the stream.
C22_CommitInHandler ==
    [][\A w \in Workers :
        /\ (partial /\ pc[w] = "catch" /\ pc'[w] # "catch") =>
              pc'[w] = "partial_commit" /\ commit_attempts' = commit_attempts
        /\ (pc[w] = "partial_commit" /\ pc'[w] # "partial_commit") =>
              /\ partial /\ pc'[w] = "close"
              /\ commit_attempts'[w] = commit_attempts[w] + 1
              /\ printed' = printed /\ aborted' = aborted /\ caught' = caught
              /\ early_abort' = early_abort /\ closed' = closed
        /\ (pc[w] = "close" /\ pc'[w] # "close") =>
              /\ pc'[w] = "done" /\ closed'[w] = 1
              /\ commit_attempts' = commit_attempts
        /\ (partial /\ caught[w] # "no" /\ pc'[w] = "done") =>
              /\ commit_attempts'[w] \in {1, 2}
              /\ commit_attempts'[w] = 2 =>
                    tables_done[w] /\ ~rollback_after /\ caught[w] = "error"
        /\ (~partial /\ caught[w] # "no") => commit_attempts'[w] <= 1]_vars

C22_Witness ==
    \E w, v \in Workers :
        /\ partial /\ w # v
        /\ pc[w] = "done" /\ caught[w] = "error" /\ txn[w] = "commit_failed"
        /\ closed[w] = 1 /\ commit_attempts[w] = 2
        /\ pc[v] = "done" /\ caught[v] = "aborted" /\ commit_attempts[v] = 1
        /\ printed = 1

\* the worker has read the replies to PROTOCOL and TARGET_BLOCK_SIZE and has
\* called the first wait_at_barrier of share_snapshot
negotiated(v) ==
    /\ times_sent(v, "PROTOCOL") = 1 /\ times_sent(v, "TARGET_BLOCK_SIZE") = 1
    /\ pc[v] \notin {"protocol_reply", "negotiate_target_block_size", "block_size_reply"}
    /\ barrier_calls[v] >= 1

\* the worker has read the reply to its IMPORT_SNAPSHOT: it has called the
\* third wait_at_barrier of share_snapshot
imported(v) ==
    /\ times_sent(v, "IMPORT_SNAPSHOT") = 1
    /\ pc[v] \notin {"import_snapshot", "import_reply"}
    /\ barrier_calls[v] >= 3

\* C23: with more than one worker and snapshots enabled, the leader has sent
\* EXPORT_SNAPSHOT only if every worker has finished the protocol and block
\* size negotiation and reached the barrier before the snapshot, and has sent
\* UNHOLD_SNAPSHOT only if every other worker has read the reply to its
\* IMPORT_SNAPSHOT.
C23_SnapshotOrder ==
    (num_workers > 1 /\ snapshot) =>
        /\ times_sent(0, "EXPORT_SNAPSHOT") > 0 =>
              \A v \in Workers : negotiated(v)
        /\ times_sent(0, "UNHOLD_SNAPSHOT") > 0 =>
              \A v \in Workers \ {0} : imported(v)

C23_Witness ==
    /\ num_workers > 1 /\ snapshot
    /\ pc[0] = "unhold_reply" /\ times_sent(0, "UNHOLD_SNAPSHOT") = 1
    /\ \E v \in Workers \ {0} : pc[v] = "snapshot_barrier_3" /\ in_barrier[v]

\* C24: on ROWS_AND_HASH_NEXT and ROWS_AND_HASH_FAIL the destination checks
\* the hash over (last_key, next_key] and sends its next command before it
\* streams in the rows of (prev_key, last_key]: a combined command read leads
\* to the hash check with no row touched, the rows of a combined command are
\* streamed in only by the step after the one that sent the next command,
\* and no other step changes the destination's rows.
C24_SendsBeforeRows ==
    [][/\ (pc[0] = "read_command" /\ command'.verb \in CombinedVerbs) =>
             pc'[0] = "check_hash" /\ dst_rows' = dst_rows /\ output' = output
       /\ (pc[0] # "stream_rows" /\ pc'[0] = "stream_rows"
              /\ command'.verb \in CombinedVerbs) =>
             /\ pc[0] = "check_hash" /\ command' = command /\ dst_rows' = dst_rows
             /\ output' = Append(output, check_hash_and_choose_next_range(
                                dst_rows, command.last_key, command.next_key,
                                command.hash, block_rows))
       /\ dst_rows' # dst_rows => pc[0] = "stream_rows"]_vars

C24_Witness ==
    /\ pc[0] = "stream_rows" /\ command.verb \in CombinedVerbs
    /\ command.rows # {} /\ output # <<>>
    /\ dst_rows # stream_from_input(dst_rows, command.prev_key, command.last_key,
                                    command.rows)

\* the next command for the hash of a combined command, computed on `rows`
next_command(rows) ==
    check_hash_and_choose_next_range(rows, hash_range(command)[1],
                                     hash_range(command)[2], command.hash, block_rows)

\* whatever rows a source could deliver for the range (prev_key, last_key]
deliveries(prev_key, last_key) ==
    {retrieve_rows(t, prev_key, last_key) : t \in TableContents}

\* C25: for a combined command with prev_key <= last_key <= next_key (last_key
\* and next_key not empty), the next command the destination sends is the
\* same whether the hash over (last_key, next_key] is computed before or
\* after the rows of (prev_key, last_key] are applied, whatever the rows
\* delivered: applying them changes no row with a key after last_key.
C25_HashIndependentOfRows ==
    (pc[0] = "check_hash" /\ command.verb \in CombinedVerbs) =>
        /\ command.prev_key <= command.last_key
        /\ NoKey < command.last_key /\ command.last_key <= command.next_key
        /\ \A prev_key \in 0 .. command.last_key :
             \A delivered \in deliveries(prev_key, command.last_key) :
                LET applied == stream_from_input(dst_rows, prev_key,
                                                 command.last_key, delivered)
                IN  /\ next_command(applied) = next_command(dst_rows)
                    /\ \A k \in Keys : k > command.last_key => applied[k] = dst_rows[k]

C25_Witness ==
    /\ pc[0] = "check_hash" /\ command.verb \in CombinedVerbs
    /\ command.prev_key < command.last_key /\ command.last_key < command.next_key
    /\ dst_rows # stream_from_input(dst_rows, command.prev_key, command.last_key,
                                    command.rows)
    /\ next_command(dst_rows).verb = "HASH_FAIL"

\* each end is blocked in a write: its buffer is full and the other end, in
\* a write of its own, does not read
to_blocked_writing ==
    to_pc = "send_command" /\ send_buffer >= send_buffer_size
                           /\ peer_pc # "read_command"
peer_blocked_writing ==
    peer_pc \in {"write_command", "write_rows"} /\ ~recv_room
        /\ to_pc = "send_command"

\* C26: with a buffer that holds at least one command, a worker and its peer
\* exchanging combined commands are never both blocked writing to the other:
\* whenever the worker is about to send its next command the buffer has room
\* for it, so the send completes without the peer reading, also while the
\* peer is still writing rows.
C26_NoWriteDeadlock ==
    send_buffer_size >= 1 =>
        /\ ~(to_blocked_writing /\ peer_blocked_writing)
        /\ to_pc = "send_command" => send_buffer < send_buffer_size

C26_Witness ==
    /\ send_buffer_size = 1 /\ to_pc = "send_command" /\ send_buffer = 0
    /\ peer_pc = "write_rows" /\ rows_left > 0 /\ peer_blocked_writing

\* C27: when the destination has applied a ROWS or combined command for the
\* range (prev_key, last_key], its rows with a key in the range are exactly
\* the rows delivered, and each of its rows with a key outside the range is
\* as it was.
C27_RangeReplaced ==
    [][(pc[0] = "stream_rows" /\ pc'[0] \in {"check_aborted", "pop"}) =>
          /\ command.verb \in RowsVerbs
          /\ retrieve_rows(dst_rows', command.prev_key, command.last_key)
                = command.rows
          /\ \A k \in Keys :
                ~in_range(k, command.prev_key, command.last_key) =>
                    dst_rows'[k] = dst_rows[k]]_vars

C27_Witness ==
    /\ pc[0] = "check_aborted" /\ rows_commands = 1
    /\ \E k \in Keys : dst_rows0[k] # NoRow /\ dst_rows[k] = NoRow
    /\ \E k \in Keys : dst_rows[k] # dst_rows0[k] /\ dst_rows[k] # NoRow
    /\ \E k \in Keys : dst_rows[k] = dst_rows0[k] /\ dst_rows[k] # src_rows[k]

\* where a worker is between sync_tables' disable_referential_integrity and
\* its return from the wait_at_barrier after the loop
syncing_tables ==
    {"pop", "open", "check_aborted", "read_command", "tables_barrier"}

\* the calls of wait_at_barrier a worker has made when it is in or past the
\* one at the end of sync_tables
barriers_of_run == (IF num_workers > 1 /\ snapshot THEN 3 ELSE 0) + 2

\* C28: a worker disables referential integrity before it opens its first
\* table, it is disabled wherever the worker is between that and its return
\* from the barrier after its last table, and the worker re-enables it only
\* when it has returned from that barrier, which every worker has then
\* reached with its tables finished.
C28_ReferentialIntegrity ==
    [][\A w \in Workers :
        /\ pc'[w] \in syncing_tables => ~ref_integrity'[w]
        /\ (ref_integrity[w] /\ ~ref_integrity'[w]) =>
              times_sent(w, "OPEN") = 0 /\ pc'[w] = "pop"
        /\ times_sent(w, "OPEN")' > times_sent(w, "OPEN") => ~ref_integrity[w]
        /\ (~ref_integrity[w] /\ ref_integrity'[w]) =>
              /\ barrier_returns[w] = barriers_of_run
              /\ \A v \in Workers :
                    /\ tables_done[v] /\ table[v] = 0
                    /\ barrier_calls[v] = barriers_of_run
                    /\ pc[v] \notin syncing_tables \ {"tables_barrier"}]_vars

C28_Witness ==
    \E w, v \in Workers :
        /\ ref_integrity[w] /\ pc[w] = "commit_or_rollback"
        /\ times_sent(w, "OPEN") = 1
        /\ pc[v] = "tables_barrier" /\ in_barrier[v] /\ ~ref_integrity[v]
        /\ times_sent(v, "OPEN") = 0

\* where a worker is once the try block of operator() is left by an exception
after_catch == {"catch", "partial_commit", "close", "done"}

\* C29: when a command with a verb other than HASH_NEXT, HASH_FAIL, ROWS,
\* ROWS_AND_HASH_NEXT and ROWS_AND_HASH_FAIL is read in the loop of
\* sync_table, the worker throws without sending anything (as it does when
\* the read itself fails), sends no command and reads nothing afterwards,
\* sets the abort flag in its catch block, and the run ends with a failure.
C29_UnknownCommand ==
    /\ [](\A w \in Workers : caught[w] = "error" =>
              /\ pc[w] \in after_catch /\ table[w] = 0
              /\ pc[w] # "catch" => aborted
              /\ ~quit_tried[w] /\ result # "ok")
    /\ [][\A w \in Workers :
            /\ (pc[w] = "read_command" /\ pc'[w] \notin syncing_tables) =>
                  /\ pc'[w] = "catch" /\ caught'[w] = "error"
                  /\ sent'[w] = sent[w]
                  /\ sends_after'[w] = sends_after[w]
            /\ caught[w] = "error" =>
                  /\ sent'[w] = sent[w]
                  /\ sends_after'[w] = sends_after[w]
                  /\ reads_after'[w] = reads_after[w]]_vars
    /\ \A w \in W : (caught[w] = "error") ~> (result = "sync_error")

\* the worker threw in the loop of its table, at the read of a command
C29_Witness ==
    \E w, v \in Workers :
        /\ caught[w] = "error" /\ times_sent(w, "OPEN") = 1 /\ ~tables_done[w]
        /\ caught[v] = "aborted" /\ printed = 1
        /\ result = "sync_error"

\* the commands of share_snapshot, by worker
snapshot_commands(w) ==
    IF num_workers > 1 /\ snapshot
      THEN IF leader(w) THEN <<"EXPORT_SNAPSHOT", "UNHOLD_SNAPSHOT">>
                        ELSE <<"IMPORT_SNAPSHOT">>
      ELSE <<"WITHOUT_SNAPSHOT">>

\* the commands a worker sends up to the start of its transaction, and up to
\* its first table
negotiation_commands(w) == <<"PROTOCOL", "TARGET_BLOCK_SIZE">> \o snapshot_commands(w)
setup_commands(w) ==
    negotiation_commands(w) \o (IF leader(w) THEN <<"SCHEMA">> ELSE <<>>)

\* the commands sent are the setup commands in their order, then OPENs, then
\* at most one QUIT, which is the last
in_phase_order(w) ==
    \A i \in DOMAIN sent[w] :
        IF i <= Len(setup_commands(w))
          THEN sent[w][i][1] = setup_commands(w)[i]
          ELSE \/ sent[w][i][1] = "OPEN"
               \/ sent[w][i][1] = "QUIT" /\ i = Len(sent[w])

\* where a worker is while the reply to its last command is outstanding
awaiting_reply ==
    {"protocol_reply", "block_size_reply", "export_reply", "import_reply",
     "unhold_reply", "without_reply", "schema_reply", "check_aborted",
     "read_command"}

\* C30: a worker sends PROTOCOL, TARGET_BLOCK_SIZE, its snapshot commands,
\* SCHEMA if it is the leader, an OPEN for each table it popped, and QUIT, in
\* this order and each only when the reply to the one before has been read;
\* its transaction starts after the reply to its last snapshot command and
\* before SCHEMA and any OPEN; commit or rollback comes after its last table
\* and before QUIT.
C30_PhaseOrder ==
    [][\A w \in Workers :
        /\ in_phase_order(w)'
        /\ sent'[w] # sent[w] =>
              /\ pc[w] \notin awaiting_reply
              /\ pc'[w] \in awaiting_reply \cup {"close"}
              /\ Len(sent'[w]) = Len(sent[w]) + 1
        /\ (caught[w] = "no" /\ txn[w] = "none" /\ txn'[w] # "none") =>
              /\ txn'[w] = "open" /\ pc[w] = "start_write_transaction"
              /\ Len(sent[w]) = Len(negotiation_commands(w))
        /\ Len(sent'[w]) > Len(negotiation_commands(w)) => txn'[w] # "none"
        /\ (caught[w] = "no" /\ txn[w] = "open" /\ txn'[w] # "open") =>
              /\ txn'[w] = IF rollback_after THEN "rolled_back" ELSE "committed"
              /\ tables_done[w] /\ table[w] = 0 /\ pc[w] = "commit_or_rollback"
              /\ times_sent(w, "QUIT") = 0
        /\ txn[w] \in {"committed", "rolled_back", "commit_failed"} =>
              times_sent(w, "OPEN")' = times_sent(w, "OPEN")
        /\ times_sent(w, "QUIT")' > 0 =>
              txn'[w] \in {"committed", "rolled_back"}]_vars

C30_Witness ==
    /\ num_workers > 1 /\ snapshot /\ result = "ok"
    /\ \E v \in Workers \ {0} :
          [i \in DOMAIN sent[v] |-> sent[v][i][1]]
             = <<"PROTOCOL", "TARGET_BLOCK_SIZE", "IMPORT_SNAPSHOT", "OPEN", "QUIT">>
    /\ [i \in DOMAIN sent[0] |-> sent[0][i][1]]
          = <<"PROTOCOL", "TARGET_BLOCK_SIZE", "EXPORT_SNAPSHOT",
              "UNHOLD_SNAPSHOT", "SCHEMA", "QUIT">>

\* the calls of wait_at_barrier of operator(), in the order of the code
barrier_sites ==
    (IF num_workers > 1 /\ snapshot
       THEN <<"snapshot_barrier_1", "snapshot_barrier_2", "snapshot_barrier_3">>
       ELSE <<>>) \o <<"enqueue_barrier", "tables_barrier">>

\* the worker is past sync_tables, in the try block
past_barriers == {"enable_referential_integrity", "commit_or_rollback",
                  "send_quit_command"}

\* C31: every worker, leader or not, calls wait_at_barrier at the same places
\* in the same order, five times when a snapshot is shared among several
\* workers and twice otherwise; in a run in which no worker fails (and every
\* table's dialogue ends) no worker stays in a barrier: every worker has in
\* the end made all these calls, returned from them, and committed or rolled
\* back.
C31_SameBarriers ==
    /\ [](\A w \in Workers :
            /\ Len(barrier_sites) = IF num_workers > 1 /\ snapshot THEN 5 ELSE 2
            /\ barrier_calls[w] <= Len(barrier_sites)
            /\ pc[w] \in {barrier_sites[i] : i \in DOMAIN barrier_sites} =>
                  /\ pc[w] = barrier_sites[barrier_returns[w] + 1]
                  /\ barrier_calls[w]
                        = barrier_returns[w] + IF in_barrier[w] THEN 1 ELSE 0
            /\ pc[w] \in past_barriers =>
                  /\ barrier_calls[w] = Len(barrier_sites)
                  /\ barrier_returns[w] = Len(barrier_sites))
    /\ <>(\/ \E w \in Workers : caught[w] # "no"
          \/ \A w \in Workers :
                /\ txn[w] \in {"committed", "rolled_back"}
                /\ barrier_calls[w] = Len(barrier_sites)
                /\ barrier_returns[w] = Len(barrier_sites))

C31_Witness ==
    /\ num_workers > 1 /\ snapshot
    /\ \A w \in Workers :
          /\ caught[w] = "no" /\ pc[w] = "done"
          /\ txn[w] \in {"committed", "rolled_back"}
          /\ barrier_calls[w] = 5 /\ barrier_returns[w] = 5

\* the worker is past the if of rollback_after, in the try block or after it
past_commit_or_rollback(w) ==
    caught[w] = "no" /\ pc[w] \in {"send_quit_command", "close", "done"}

\* C32 as stated: with rollback_after set no worker's transaction is ever
\* committed, on any path, the exception path of partial mode included.
C32_NeverCommits ==
    rollback_after => \A w \in Workers : txn[w] # "committed"

\* C32: with rollback_after set, the try block never calls commit_transaction
\* and a worker that passes it without exception has rolled back; without
\* partial mode no worker commits; the only commit is the one the catch block
\* of partial mode attempts, once, for a worker that raised or observed
\* abort, and it is made whatever rollback_after says.
C32_RollbackAfter ==
    rollback_after =>
        \A w \in Workers :
            /\ past_commit_or_rollback(w) =>
                  txn[w] = "rolled_back" /\ commit_attempts[w] = 0
            /\ commit_attempts[w] > 0 =>
                  /\ partial /\ caught[w] # "no"
                  /\ pc[w] \in {"close", "done"}
                  /\ commit_attempts[w] = 1
            /\ txn[w] = "committed" => commit_attempts[w] = 1
            /\ ~partial => txn[w] \notin {"committed", "commit_failed"}

C32_Witness ==
    /\ rollback_after /\ partial
    /\ \E w, v \in Workers :
          /\ past_commit_or_rollback(w) /\ txn[w] = "rolled_back"
          /\ caught[v] # "no" /\ txn[v] = "committed" /\ pc[v] = "done"

\* the step commits the transaction of worker w
commits(w) == txn[w] # "committed" /\ txn'[w] = "committed"

\* C33 as stated: a committed transaction was committed, on the success path
\* and on the commit-on-error path of partial mode, with referential
\* integrity re-enabled on the worker's connection.
C33_ReenabledBeforeCommit ==
    \A w \in Workers : txn[w] = "committed" => ref_integrity[w]

\* C33: the commit at the end of the try block is made with referential
\* integrity re-enabled, after the worker disabled it and returned from the
\* barrier at the end of sync_tables. The commit of partial mode in the catch
\* block is made with referential integrity as the exception left it: nothing
\* re-enables it there, so a worker that raised or observed abort inside
\* sync_tables, its tables opened and the last barrier not yet called, commits
\* with it still disabled; it is disabled at such a commit only for a worker
\* that had got as far as sync_tables.
C33_ReenabledOnSuccessPath ==
    [][\A w \in Workers : commits(w) =>
        /\ ref_integrity'[w] = ref_integrity[w]
        /\ caught[w] = "no" =>
              /\ pc[w] = "commit_or_rollback" /\ ~rollback_after
              /\ ref_integrity[w]
              /\ barrier_returns[w] = barriers_of_run
        /\ caught[w] # "no" =>
              /\ pc[w] = "partial_commit" /\ partial
              /\ ~ref_integrity[w] => barrier_returns[w] >= barriers_of_run - 1
              /\ (times_sent(w, "OPEN") > 0 /\ barrier_calls[w] < barriers_of_run)
                    => ~ref_integrity[w]]_vars

C33_Witness ==
    /\ partial
    /\ \E w, v \in Workers :
          /\ caught[v] = "no" /\ txn[v] = "committed" /\ ref_integrity[v]
          /\ times_sent(v, "OPEN") > 0
          /\ caught[w] # "no" /\ txn[w] = "committed" /\ ~ref_integrity[w]
          /\ pc[w] = "done"

====
